---- MODULE Spec2Model ----
(***************************************************************************)
(* A model of the chip8rs CHIP-8 interpreter (src/src/chip8.rs and the     *)
(* display, keypad and timer code it drives).  The machine state is the    *)
(* Chip8 struct plus the shared display, keypad and timer cells; one CPU   *)
(* step is one pass of the loop of Chip8::run: fetch, decode, execute.     *)
(***************************************************************************)
EXTENDS Integers, Naturals, Sequences, FiniteSets, TLC

VARIABLES
    memory,          \* Chip8.memory: [u8; MEMORY_SIZE], kept as its nonzero cells
    pc,              \* Chip8.pc: u16
    i,               \* Chip8.i: u16
    stack,           \* Chip8.stack: Vec<u16>
    regs,            \* Chip8.regs: [u8; REGISTERS_SIZE]
    display,         \* the shared display: the set of lit positions (get_pos)
    keypad,          \* KeyboardKeypad.keys: Vec<bool>
    delay_timer,     \* Chip8.delay_timer: Arc<Mutex<u8>>
    sound_timer,     \* Chip8.sound_timer: Arc<Mutex<u8>>
    playing_timer,   \* the sound ticker's local playing_timer
    held,            \* the mutexes whose guards the CPU thread holds
    delay_thread,    \* the delay timer thread: asleep, or holding the guard on
                     \* delay_timer with the value it read under it
    sound_thread,    \* the sound timer thread, likewise for sound_timer
    tone,            \* the length (in ticks) of the tone the sound thread
                     \* started in its last pass, 0 if it started none
    log,             \* per timer: the value the CPU stored last (v), the
                     \* thread's decrement passes since (k, counted up to v),
                     \* and the counter as the thread's last pass left it (base)
    peak,            \* the most guards the CPU thread has had at once, a
                     \* guard it asks for counted with those it holds
    audio,           \* the host's audio output: "works", "no_device" (it
                     \* cannot be opened) or "play_fails" (it opens, and
                     \* playing a source on it fails)
    status,          \* "new" until Chip8::run has loaded the ROM, then "running",
                     \* or "panic" once the panic hook has ended the process
    panic_msg,       \* the message of the last panic ("" if there was none)
    failed,          \* the worker threads that have panicked
    exit_code,       \* the exit code of the process, -1 while it runs
    drawing,         \* where draw_sprite stands, in the specification that
                     \* runs DXYN pixel by pixel: idle, or in its loops at
                     \* (row, bit), between two uses of the display
    frame,           \* the lit positions App::render found when it ran last
    scanning,        \* where wait_for_key stands, in the specification that
                     \* runs FX0A key by key: idle, or about to test a key
    overflow_checks, \* whether the build panics on integer overflow (debug) or wraps (release)
    rom,             \* the bytes of the ROM file given to Chip8::run
    last,            \* the instruction the CPU executed last (decoded), or NoInstr
    pre,             \* the CPU state right before that instruction was fetched
    last2,           \* the instruction executed before last
    pre2             \* the CPU state right before last2 was fetched

vars == <<memory, pc, i, stack, regs, display, keypad, delay_timer, sound_timer,
          playing_timer, held, delay_thread, sound_thread, tone, log, peak,
          audio, status, panic_msg, failed, exit_code, drawing, frame, scanning,
          overflow_checks, rom, last, pre, last2, pre2>>

(***************************************************************************)
(* Program constants.                                                      *)
(***************************************************************************)
MEMORY_SIZE == 4096
STACK_SIZE == 100
REGISTERS_SIZE == 16
FONT_START == 80
ROM_START == 512
DISPLAY_WIDTH == 64
DISPLAY_HEIGHT == 32
KEYPAD_SIZE == 16
FONT_SIZE == 5

(***************************************************************************)
(* Bounds of the model.                                                    *)
(***************************************************************************)
\* Operand bytes of the generated ROMs: 0..MaxLow and 255-MaxLow..255,
\* and the two values around the sign bit.
MaxLow == 2
\* A CALL is not taken by the model once this many entries lie above the
\* STACK_SIZE entries the stack is constructed with.
MaxPending == 101
\* Sprite heights (the N of DXYN) the generated ROMs use: 0..MaxRows, and 15.
MaxRows == 2
\* The host presses and releases the keys 0..MaxKey.
MaxKey == 1

U8 == 256
U16 == 65536

Bit(v, k) == (v \div (2 ^ k)) % 2

\* The u8 operators |, & and ^ of Rust, bit by bit.
BitOr(a, b) ==
    LET f(k) == IF Bit(a, k) + Bit(b, k) > 0 THEN 2 ^ k ELSE 0
    IN  f(0) + f(1) + f(2) + f(3) + f(4) + f(5) + f(6) + f(7)

BitAnd(a, b) ==
    LET f(k) == IF Bit(a, k) + Bit(b, k) = 2 THEN 2 ^ k ELSE 0
    IN  f(0) + f(1) + f(2) + f(3) + f(4) + f(5) + f(6) + f(7)

BitXor(a, b) ==
    LET f(k) == IF Bit(a, k) + Bit(b, k) = 1 THEN 2 ^ k ELSE 0
    IN  f(0) + f(1) + f(2) + f(3) + f(4) + f(5) + f(6) + f(7)

(***************************************************************************)
(* The font table of Fonts::new(): 16 glyphs of FONT_SIZE bytes each.      *)
(***************************************************************************)
Fonts ==
    << <<240, 144, 144, 144, 240>>, <<32, 96, 32, 32, 112>>,
       <<240, 16, 240, 128, 240>>, <<240, 16, 240, 16, 240>>,
       <<144, 144, 240, 16, 16>>, <<240, 128, 240, 16, 240>>,
       <<240, 128, 240, 144, 240>>, <<240, 16, 32, 64, 64>>,
       <<240, 144, 240, 144, 240>>, <<240, 144, 240, 16, 240>>,
       <<240, 144, 240, 144, 144>>, <<224, 144, 224, 144, 224>>,
       <<240, 128, 128, 128, 240>>, <<224, 144, 144, 144, 224>>,
       <<240, 128, 240, 128, 240>>, <<240, 128, 240, 128, 128>> >>

(***************************************************************************)
(* impl From<u16> for Instruction: the decoder.  The fields are the fixed  *)
(* nibble positions of the word; op "Unknown" stands for the panics.       *)
(***************************************************************************)
\* Instr taking X from the third digit of the word and Y from the second.
Instr_swapped(op, w) ==
    [op |-> op, x |-> (w \div 16) % 16, y |-> (w \div 256) % 16,
     n |-> w % 16, nn |-> w % 256, nnn |-> w % 4096]

Instr(op, w) ==
    [op |-> op, x |-> (w \div 256) % 16, y |-> (w \div 16) % 16,
     n |-> w % 16, nn |-> w % 256, nnn |-> w % 4096]

NoInstr == [op |-> "None", x |-> 0, y |-> 0, n |-> 0, nn |-> 0, nnn |-> 0]

Decode(w) ==
    LET top == w \div 4096
        low == w % 16
        lowbyte == w % 256
    IN  CASE top = 0 ->
                 IF w = 224 THEN Instr("ClearScreen", w)
                 ELSE IF w = 238 THEN Instr("Return", w)
                 ELSE Instr("Unknown", w)
          [] top = 1 -> Instr("Jump", w)
          [] top = 2 -> Instr("Call", w)
          [] top = 3 -> Instr("SkipIfEqual", w)
          [] top = 4 -> Instr("SkipIfDifferent", w)
          [] top = 5 ->
                 IF low = 0 THEN Instr("SkipIfContentEqual", w)
                 ELSE Instr("Unknown", w)
          [] top = 6 -> Instr("SetRegister", w)
          [] top = 7 -> Instr("AddToRegister", w)
          [] top = 8 ->
                 CASE low = 0 -> Instr("LogicalCopy", w)
                   [] low = 1 -> Instr("LogicalOr", w)
                   [] low = 2 -> Instr("LogicalAnd", w)
                   [] low = 3 -> Instr("LogicalXor", w)
                   [] low = 4 -> Instr("LogicalAdd", w)
                   [] low = 5 -> Instr("LogicalSubtract", w)
                   [] low = 6 -> Instr("LogicalRightShift", w)
                   [] low = 7 -> Instr("LogicalSubtractInverse", w)
                   [] low = 14 -> Instr("LogicalLeftShift", w)
                   [] OTHER -> Instr("Unknown", w)
          [] top = 9 ->
                 IF low = 0 THEN Instr("SkipIfContentDifferent", w)
                 ELSE Instr("Unknown", w)
          [] top = 10 -> Instr("SetIndex", w)
          [] top = 11 -> Instr("JumpWithRegister", w)
          [] top = 12 -> Instr("Random", w)
          [] top = 13 -> Instr("Display", w)
          [] top = 14 ->
                 IF lowbyte = 158 THEN Instr("SkipIfPressed", w)
                 ELSE IF lowbyte = 161 THEN Instr("SkipIfNotPressed", w)
                 ELSE Instr("Unknown", w)
          [] OTHER ->
                 CASE lowbyte = 7 -> Instr("CopyDelayTimer", w)
                   [] lowbyte = 10 -> Instr("WaitForKey", w)
                   [] lowbyte = 21 -> Instr("SetDelayTimer", w)
                   [] lowbyte = 24 -> Instr("SetSoundTimer", w)
                   [] lowbyte = 30 -> Instr("AddToIndex", w)
                   [] lowbyte = 41 -> Instr("SetIndexToFont", w)
                   [] lowbyte = 51 -> Instr("BinaryConversion", w)
                   [] lowbyte = 85 -> Instr("Store", w)
                   [] lowbyte = 101 -> Instr("Load", w)
                   [] OTHER -> Instr("Unknown", w)

(***************************************************************************)
(* The CPU handlers work on a record s of the state the CPU thread can     *)
(* touch: memory, pc, i, stack, regs, display, keypad, delay_timer,        *)
(* sound_timer, status, panic_msg.  A panic keeps what was written before  *)
(* it and ends the process (the panic hook of App::run exits).             *)
(***************************************************************************)
\* The process after a panic, with no hook set: the default hook prints the
\* message, the thread unwinds and ends, the process goes on.
panic_hook_default(p) == p

\* The process after a panic, with the hook App::run sets for all threads:
\* the original hook prints the message, then process::exit(1).
panic_hook(p) == [p EXCEPT !.status = "panic", !.exit_code = 1]

\* A panic on the CPU thread.
Panic(s, msg) ==
    LET p == panic_hook([status |-> s.status, exit_code |-> s.exit_code])
    IN  [s EXCEPT !.failed = @ \cup {"cpu"}, !.panic_msg = msg,
                  !.status = p.status, !.exit_code = p.exit_code]

(***************************************************************************)
(* The memory array.  The variable holds the cells that are not zero, as a *)
(* function from their addresses: MemGet reads a cell of the array and     *)
(* MemSet writes one, for addresses in 0..MEMORY_SIZE-1.                   *)
(***************************************************************************)
MemGet(m, a) == IF a \in DOMAIN m THEN m[a] ELSE 0

MemSet(m, a, v) ==
    IF v = 0 THEN [b \in (DOMAIN m) \ {a} |-> m[b]]
    ELSE [b \in (DOMAIN m) \cup {a} |-> IF b = a THEN v ELSE m[b]]

\* memory[(base + off) as usize] = value, with base and off of type u16.
mem_store(s, base, off, value) ==
    IF s.status # "running" THEN s
    ELSE IF base + off >= U16 /\ overflow_checks
         THEN Panic(s, "attempt to add with overflow")
    ELSE LET a == (base + off) % U16
         IN  IF a >= MEMORY_SIZE THEN Panic(s, "index out of bounds")
             ELSE [s EXCEPT !.memory = MemSet(s.memory, a, value)]

\* Whether reading memory[(base + off) as usize] panics, and the address read.
mem_addr(base, off) == (base + off) % U16

mem_read_panic(base, off) ==
    IF base + off >= U16 /\ overflow_checks THEN "attempt to add with overflow"
    ELSE IF mem_addr(base, off) >= MEMORY_SIZE THEN "index out of bounds"
    ELSE ""

(***************************************************************************)
(* The display (trait Display): the lit cells, each named by get_pos.      *)
(***************************************************************************)
\* get_pos: Err (here -1) for a coordinate outside the grid.
\* Mutex::lock by the CPU thread, and the drop of the guard it returned (at
\* the end of the statement or of the function that holds it, or while a
\* panic unwinds).  peak counts the guards the thread holds once lock
\* returns, the one of a mutex it had locked already included.
lock(s, mutex) ==
    [s EXCEPT !.held = @ \cup {mutex},
              !.peak = IF Cardinality(s.held) + 1 > @ THEN Cardinality(s.held) + 1 ELSE @]

drop_guard(s, mutex) == [s EXCEPT !.held = @ \ {mutex}]

get_pos(x, y) ==
    IF x >= DISPLAY_WIDTH THEN -1
    ELSE IF y >= DISPLAY_HEIGHT THEN -1
    ELSE x + (y * (DISPLAY_WIDTH + 1))

is_on(d, x, y) == get_pos(x, y) \in d

led_on(s, x, y) ==
    IF get_pos(x, y) = -1 THEN Panic(s, "coordinate is too large")
    ELSE [s EXCEPT !.display = @ \cup {get_pos(x, y)}]

led_off(s, x, y) ==
    IF get_pos(x, y) = -1 THEN Panic(s, "coordinate is too large")
    ELSE [s EXCEPT !.display = @ \ {get_pos(x, y)}]

display_clear_screen(on) ==
    IF on THEN {get_pos(x, y) : x \in 0..(DISPLAY_WIDTH - 1), y \in 0..(DISPLAY_HEIGHT - 1)}
    ELSE {}

(***************************************************************************)
(* The keypad (impl Keypad for KeyboardKeypad); keys is indexed from 0.    *)
(***************************************************************************)
get_is_pressed_panics(k, code) == code >= Len(k)

get_is_pressed(k, code) == k[code + 1]

set_is_pressed(k, code, is_pressed) == [k EXCEPT ![code + 1] = is_pressed]

(***************************************************************************)
(* Chip8::fetch.                                                           *)
(***************************************************************************)
fetch_panics(s) == s.pc >= MEMORY_SIZE \/ s.pc + 1 >= MEMORY_SIZE

fetch_word(s) == (MemGet(s.memory, s.pc) * 256) + MemGet(s.memory, s.pc + 1)

fetch(s) ==
    IF fetch_panics(s) THEN Panic(s, "index out of bounds")
    ELSE [s EXCEPT !.pc = s.pc + 2]

(***************************************************************************)
(* The instruction handlers of impl Chip8.                                 *)
(***************************************************************************)
\* clear_screen passing true to the display: every pixel is turned on.
clear_screen_on(s) ==
    drop_guard([lock(s, "display") EXCEPT !.display = display_clear_screen(TRUE)],
               "display")

clear_screen(s) ==
    drop_guard([lock(s, "display") EXCEPT !.display = display_clear_screen(FALSE)],
               "display")

return_subroutine(s) ==
    IF Len(s.stack) = 0 THEN Panic(s, "called Option::unwrap() on a None value")
    ELSE [s EXCEPT !.pc = s.stack[Len(s.stack)],
                   !.stack = SubSeq(s.stack, 1, Len(s.stack) - 1)]

jump(s, addr) == [s EXCEPT !.pc = addr]

call_subroutine(s, addr) ==
    [s EXCEPT !.stack = Append(s.stack, s.pc), !.pc = addr]

skip_if_eq(s, reg, value) ==
    IF value = s.regs[reg] THEN [s EXCEPT !.pc = s.pc + 2] ELSE s

skip_if_diff(s, reg, value) ==
    IF value # s.regs[reg] THEN [s EXCEPT !.pc = s.pc + 2] ELSE s

skip_if_content_eq(s, reg_x, reg_y) ==
    IF s.regs[reg_x] = s.regs[reg_y] THEN [s EXCEPT !.pc = s.pc + 2] ELSE s

set_register(s, reg, value) == [s EXCEPT !.regs[reg] = value]

\* add_to_reg writing the carry of the sum to VF, as 8XY4 does.
add_to_reg_sets_carry(s, reg, value) ==
    [s EXCEPT !.regs = [[@ EXCEPT ![15] = IF s.regs[reg] + value > 255 THEN 1 ELSE 0]
                           EXCEPT ![reg] = (s.regs[reg] + value) % U8]]

add_to_reg(s, reg, value) ==
    [s EXCEPT !.regs[reg] = (s.regs[reg] + value) % U8]

logical_copy(s, reg_x, reg_y) == [s EXCEPT !.regs[reg_x] = s.regs[reg_y]]

\* logical_or that also clears VF, as the original interpreter did.
logical_or_resets_flag(s, reg_x, reg_y) ==
    [s EXCEPT !.regs = [[@ EXCEPT ![reg_x] = BitOr(s.regs[reg_x], s.regs[reg_y])]
                          EXCEPT ![15] = 0]]

logical_or(s, reg_x, reg_y) ==
    [s EXCEPT !.regs[reg_x] = BitOr(s.regs[reg_x], s.regs[reg_y])]

logical_and(s, reg_x, reg_y) ==
    [s EXCEPT !.regs[reg_x] = BitAnd(s.regs[reg_x], s.regs[reg_y])]

logical_xor(s, reg_x, reg_y) ==
    [s EXCEPT !.regs[reg_x] = BitXor(s.regs[reg_x], s.regs[reg_y])]

\* logical_add with the carry test off by one (>= 0xFF for > 0xFF).
logical_add_carry_off_by_one(s, reg_x, reg_y) ==
    LET add_value == s.regs[reg_x] + s.regs[reg_y]
        r1 == [s.regs EXCEPT ![15] = IF add_value >= 255 THEN 1 ELSE 0]
    IN  [s EXCEPT !.regs = [r1 EXCEPT ![reg_x] = add_value % U8]]

\* add_value is computed first; then VF is written; then Vx.
logical_add(s, reg_x, reg_y) ==
    LET add_value == s.regs[reg_x] + s.regs[reg_y]
        r1 == [s.regs EXCEPT ![15] = IF add_value > 255 THEN 1 ELSE 0]
    IN  [s EXCEPT !.regs = [r1 EXCEPT ![reg_x] = add_value % U8]]

\* VF is written first; the difference is computed from the registers after that.
logical_sub(s, reg_x, reg_y) ==
    IF s.regs[reg_x] > s.regs[reg_y]
    THEN LET r1 == [s.regs EXCEPT ![15] = 1]
             diff == r1[reg_x] - r1[reg_y]
         IN  IF diff < 0 /\ overflow_checks
             THEN Panic([s EXCEPT !.regs = r1], "attempt to subtract with overflow")
             ELSE [s EXCEPT !.regs = [r1 EXCEPT ![reg_x] = diff % U8]]
    ELSE LET r1 == [s.regs EXCEPT ![15] = 0]
         IN  [s EXCEPT !.regs =
                  [r1 EXCEPT ![reg_x] = ((256 - r1[reg_y]) + r1[reg_x]) % U8]]

\* logical_right_shift taking the flag from bit 7, as the left shift does.
logical_right_shift_flag_msb(s, reg_x) ==
    LET r1 == [s.regs EXCEPT ![15] = IF Bit(s.regs[reg_x], 7) = 1 THEN 1 ELSE 0]
    IN  [s EXCEPT !.regs = [r1 EXCEPT ![reg_x] = r1[reg_x] \div 2]]

logical_right_shift(s, reg_x) ==
    LET r1 == [s.regs EXCEPT ![15] = IF s.regs[reg_x] % 2 = 1 THEN 1 ELSE 0]
    IN  [s EXCEPT !.regs = [r1 EXCEPT ![reg_x] = r1[reg_x] \div 2]]

\* Vx is written first (never wrapping: the operands are swapped), then VF.
logical_sub_inv(s, reg_x, reg_y) ==
    IF s.regs[reg_y] >= s.regs[reg_x]
    THEN LET r1 == [s.regs EXCEPT ![reg_x] = s.regs[reg_y] - s.regs[reg_x]]
         IN  [s EXCEPT !.regs = [r1 EXCEPT ![15] = 1]]
    ELSE LET r1 == [s.regs EXCEPT ![reg_x] = s.regs[reg_x] - s.regs[reg_y]]
         IN  [s EXCEPT !.regs = [r1 EXCEPT ![15] = 0]]

logical_left_shift(s, reg_x) ==
    LET r1 == [s.regs EXCEPT ![15] = IF Bit(s.regs[reg_x], 7) = 1 THEN 1 ELSE 0]
    IN  [s EXCEPT !.regs = [r1 EXCEPT ![reg_x] = (r1[reg_x] * 2) % U8]]

\* skip_if_content_diff with the test of skip_if_content_eq.
skip_if_content_diff_as_eq(s, reg_x, reg_y) ==
    IF s.regs[reg_x] = s.regs[reg_y] THEN [s EXCEPT !.pc = s.pc + 2] ELSE s

skip_if_content_diff(s, reg_x, reg_y) ==
    IF s.regs[reg_x] # s.regs[reg_y] THEN [s EXCEPT !.pc = s.pc + 2] ELSE s

set_index(s, value) == [s EXCEPT !.i = value]

jump_with_reg(s, value) == [s EXCEPT !.pc = value + s.regs[0]]

\* random is the byte rng.gen() returned.
random(s, reg, value, rnd) == [s EXCEPT !.regs[reg] = BitAnd(rnd, value)]

(***************************************************************************)
(* Chip8::draw_sprite.  draw_pixel is what the inner loop does to one cell *)
(* of the display that is on the screen.                                   *)
(***************************************************************************)
\* draw_pixel lighting a led for every high bit and never turning one off.
draw_pixel_or(s, x_pos, y_pos, bit_value) ==
    IF get_pos(x_pos, y_pos) = -1
    THEN drop_guard(Panic(lock(s, "display"), "coordinate is too large"), "display")
    ELSE LET s0 == drop_guard(lock(s, "display"), "display")
         IN  IF bit_value # 0
             THEN drop_guard(led_on(lock(s0, "display"), x_pos, y_pos), "display")
             ELSE s0

\* draw_pixel with led_status bound to the guard instead of to the value read
\* through it, so that the guard lives to the end of the loop's body.
draw_pixel_keeps_guard(s, x_pos, y_pos, bit_value) ==
    IF get_pos(x_pos, y_pos) = -1
    THEN drop_guard(Panic(lock(s, "display"), "coordinate is too large"), "display")
    ELSE LET led_status == is_on(s.display, x_pos, y_pos)
             s0 == lock(s, "display")
         IN  IF bit_value # 0 /\ led_status
             THEN LET s1 == drop_guard(led_off(lock(s0, "display"), x_pos, y_pos),
                                       "display")
                  IN  [s1 EXCEPT !.regs[15] = 1]
             ELSE IF bit_value # 0 /\ ~led_status
             THEN drop_guard(led_on(lock(s0, "display"), x_pos, y_pos), "display")
             ELSE drop_guard(s0, "display")

\* The body of draw_sprite's inner loop for a pixel on the screen: the pixel
\* is read under one guard of the display, dropped at the end of the let
\* statement, and written under another.
draw_pixel(s, x_pos, y_pos, bit_value) ==
    IF get_pos(x_pos, y_pos) = -1
    THEN drop_guard(Panic(lock(s, "display"), "coordinate is too large"), "display")
    ELSE LET led_status == is_on(s.display, x_pos, y_pos)
             s0 == drop_guard(lock(s, "display"), "display")
         IN  IF bit_value # 0 /\ led_status
             THEN LET s1 == drop_guard(led_off(lock(s0, "display"), x_pos, y_pos),
                                       "display")
                  IN  [s1 EXCEPT !.regs[15] = 1]
             ELSE IF bit_value # 0 /\ ~led_status
             THEN drop_guard(led_on(lock(s0, "display"), x_pos, y_pos), "display")
             ELSE s0

\* x_clipped without the test against DISPLAY_WIDTH.
x_never_clipped(x_pos) == FALSE

x_clipped(x_pos) == ~(x_pos < DISPLAY_WIDTH)

y_clipped(y_pos) == ~(y_pos < DISPLAY_HEIGHT)

\* draw_bit reading the sprite byte from its least significant bit.
draw_bit_lsb_first(s, x, y_pos, sprite_data, sprite_bit_i) ==
    IF s.status # "running" THEN s
    ELSE LET x_pos == x + sprite_bit_i
         IN  IF x_clipped(x_pos) THEN s
             ELSE draw_pixel(s, x_pos, y_pos, Bit(sprite_data, sprite_bit_i))

\* The body of the inner loop for sprite bit sprite_bit_i of a row.
draw_bit(s, x, y_pos, sprite_data, sprite_bit_i) ==
    IF s.status # "running" THEN s
    ELSE LET x_pos == x + sprite_bit_i
         IN  IF x_clipped(x_pos) THEN s
             ELSE draw_pixel(s, x_pos, y_pos, Bit(sprite_data, 7 - sprite_bit_i))

\* The inner loop: sprite bits 0..7 of one row, in order.
draw_row(s, x, y_pos, d) ==
    draw_bit(draw_bit(draw_bit(draw_bit(draw_bit(draw_bit(draw_bit(draw_bit(
        s, x, y_pos, d, 0), x, y_pos, d, 1), x, y_pos, d, 2), x, y_pos, d, 3),
        x, y_pos, d, 4), x, y_pos, d, 5), x, y_pos, d, 6), x, y_pos, d, 7)

\* The outer loop, from row sprite_row on.
RECURSIVE draw_from(_, _, _, _, _)
draw_from(s, x, y, n, sprite_row) ==
    IF sprite_row >= n \/ s.status # "running" THEN s
    ELSE LET y_pos == y + sprite_row
         IN  IF y_clipped(y_pos) THEN draw_from(s, x, y, n, sprite_row + 1)
             ELSE IF mem_read_panic(s.i, sprite_row) # ""
                  THEN Panic(s, mem_read_panic(s.i, sprite_row))
             ELSE draw_from(draw_row(s, x, y_pos,
                                     MemGet(s.memory, mem_addr(s.i, sprite_row))),
                            x, y, n, sprite_row + 1)

\* draw_sprite without the reset of VF before the loops.
draw_sprite_no_flag_reset(s, x, y, n) ==
    LET x0 == s.regs[x] % DISPLAY_WIDTH
        y0 == s.regs[y] % DISPLAY_HEIGHT
    IN  draw_from(s, x0, y0, n, 0)

draw_sprite(s, x, y, n) ==
    LET x0 == s.regs[x] % DISPLAY_WIDTH
        y0 == s.regs[y] % DISPLAY_HEIGHT
    IN  draw_from([s EXCEPT !.regs[15] = 0], x0, y0, n, 0)

(***************************************************************************)
(* Keypad and timer instructions.                                          *)
(***************************************************************************)
skip_if_pressed(s, reg) ==
    LET key == s.regs[reg]
        g == lock(s, "keypad")
    IN  drop_guard(
            IF get_is_pressed_panics(g.keypad, key) THEN Panic(g, "index out of bounds")
            ELSE IF get_is_pressed(g.keypad, key) THEN [g EXCEPT !.pc = g.pc + 2]
            ELSE g,
            "keypad")

skip_if_not_pressed(s, reg) ==
    LET key == s.regs[reg]
        g == lock(s, "keypad")
    IN  drop_guard(
            IF get_is_pressed_panics(g.keypad, key) THEN Panic(g, "index out of bounds")
            ELSE IF ~get_is_pressed(g.keypad, key) THEN [g EXCEPT !.pc = g.pc + 2]
            ELSE g,
            "keypad")

copy_delay_timer(s, reg) ==
    LET g == lock(s, "delay_timer")
    IN  drop_guard([g EXCEPT !.regs[reg] = g.delay_timer], "delay_timer")

\* The first key of 0..15 that is pressed, or 16 when none is.
RECURSIVE first_pressed(_, _)
first_pressed(k, key) ==
    IF key >= 16 THEN key
    ELSE IF get_is_pressed(k, key) THEN key
    ELSE first_pressed(k, key + 1)

\* wait_for_key going on to the next instruction when no key is pressed.
wait_for_key_no_rewind(s, reg) ==
    LET g == lock(s, "keypad")
        key == first_pressed(g.keypad, 0)
    IN  drop_guard(IF key >= 16 THEN g ELSE [g EXCEPT !.regs[reg] = key], "keypad")

\* wait_for_key keeping its guard on the keypad when no key is pressed.
wait_for_key_keeps_guard(s, reg) ==
    LET g == lock(s, "keypad")
        key == first_pressed(g.keypad, 0)
    IN  IF key >= 16 THEN [g EXCEPT !.pc = g.pc - 2]
        ELSE drop_guard([g EXCEPT !.regs[reg] = key], "keypad")

\* wait_for_key marking the key it found as released.
wait_for_key_releases_key(s, reg) ==
    LET g == lock(s, "keypad")
        key == first_pressed(g.keypad, 0)
    IN  drop_guard(IF key >= 16 THEN [g EXCEPT !.pc = g.pc - 2]
                   ELSE [g EXCEPT !.regs[reg] = key,
                                  !.keypad = set_is_pressed(@, key, FALSE)],
                   "keypad")

\* The guard on the keypad lives from the first line of the function to its
\* return, over the scan and the decrement of PC.
wait_for_key(s, reg) ==
    LET g == lock(s, "keypad")
        key == first_pressed(g.keypad, 0)
    IN  drop_guard(IF key >= 16 THEN [g EXCEPT !.pc = g.pc - 2]
                   ELSE [g EXCEPT !.regs[reg] = key],
                   "keypad")

set_delay_timer(s, reg) ==
    LET g == lock(s, "delay_timer")
    IN  drop_guard([g EXCEPT !.delay_timer = g.regs[reg]], "delay_timer")

set_sound_timer(s, reg) ==
    LET g == lock(s, "sound_timer")
    IN  drop_guard([g EXCEPT !.sound_timer = g.regs[reg]], "sound_timer")

(***************************************************************************)
(* Index and memory instructions.                                          *)
(***************************************************************************)
\* add_to_index keeping I to 12 bits: the flag is set above 0xFFF.
add_to_index_12_bits(s, reg) ==
    LET temp_add == s.i + s.regs[reg]
    IN  [s EXCEPT !.regs[15] = IF temp_add > 4095 THEN 1 ELSE 0,
                  !.i = temp_add % MEMORY_SIZE]

add_to_index(s, reg) ==
    LET temp_add == s.i + s.regs[reg]
    IN  [s EXCEPT !.regs[15] = IF temp_add > 65535 THEN 1 ELSE 0,
                  !.i = temp_add % U16]

set_index_to_font(s, reg) ==
    [s EXCEPT !.i = FONT_START + (FONT_SIZE * s.regs[reg])]

\* binary_conversion storing the units at I and the hundreds at I + 2.
binary_conversion_units_first(s, reg) ==
    LET v == s.regs[reg]
        s1 == mem_store(s, s.i, 0, v % 10)
        s2 == mem_store(s1, s.i, 1, (v \div 10) % 10)
    IN  mem_store(s2, s.i, 2, ((v \div 10) \div 10) % 10)

binary_conversion(s, reg) ==
    LET v == s.regs[reg]
        s1 == mem_store(s, s.i, 2, v % 10)
        s2 == mem_store(s1, s.i, 1, (v \div 10) % 10)
    IN  mem_store(s2, s.i, 0, ((v \div 10) \div 10) % 10)

RECURSIVE store_from(_, _, _)
store_from(s, reg_max, reg_i) ==
    IF reg_i > reg_max \/ s.status # "running" THEN s
    ELSE store_from(mem_store(s, s.i, reg_i, s.regs[reg_i]), reg_max, reg_i + 1)

\* store with the range 0..reg_max, which leaves VX out.
store_exclusive(s, reg_max) == store_from(s, reg_max - 1, 0)

store(s, reg_max) == store_from(s, reg_max, 0)

RECURSIVE load_from(_, _, _)
load_from(s, reg_max, reg_i) ==
    IF reg_i > reg_max \/ s.status # "running" THEN s
    ELSE IF mem_read_panic(s.i, reg_i) # "" THEN Panic(s, mem_read_panic(s.i, reg_i))
    ELSE load_from([s EXCEPT !.regs[reg_i] = MemGet(s.memory, mem_addr(s.i, reg_i))],
                   reg_max, reg_i + 1)

load(s, reg_max) == load_from(s, reg_max, 0)

(***************************************************************************)
(* Chip8::execute, for a decoded instruction; rnd is the byte the random   *)
(* number generator returns if the instruction asks for one.               *)
(***************************************************************************)
execute(s, instr, rnd) ==
    LET op == instr.op
        x == instr.x
        y == instr.y
    IN  CASE op = "ClearScreen" -> clear_screen(s)
          [] op = "Return" -> return_subroutine(s)
          [] op = "Jump" -> jump(s, instr.nnn)
          [] op = "Call" -> call_subroutine(s, instr.nnn)
          [] op = "SkipIfEqual" -> skip_if_eq(s, x, instr.nn)
          [] op = "SkipIfDifferent" -> skip_if_diff(s, x, instr.nn)
          [] op = "SkipIfContentEqual" -> skip_if_content_eq(s, x, y)
          [] op = "SetRegister" -> set_register(s, x, instr.nn)
          [] op = "AddToRegister" -> add_to_reg(s, x, instr.nn)
          [] op = "LogicalCopy" -> logical_copy(s, x, y)
          [] op = "LogicalOr" -> logical_or(s, x, y)
          [] op = "LogicalAnd" -> logical_and(s, x, y)
          [] op = "LogicalXor" -> logical_xor(s, x, y)
          [] op = "LogicalAdd" -> logical_add(s, x, y)
          [] op = "LogicalSubtract" -> logical_sub(s, x, y)
          [] op = "LogicalRightShift" -> logical_right_shift(s, x)
          [] op = "LogicalSubtractInverse" -> logical_sub_inv(s, x, y)
          [] op = "LogicalLeftShift" -> logical_left_shift(s, x)
          [] op = "SkipIfContentDifferent" -> skip_if_content_diff(s, x, y)
          [] op = "SetIndex" -> set_index(s, instr.nnn)
          [] op = "JumpWithRegister" -> jump_with_reg(s, instr.nnn)
          [] op = "Random" -> random(s, x, instr.nn, rnd)
          [] op = "Display" -> draw_sprite(s, x, y, instr.n)
          [] op = "SkipIfPressed" -> skip_if_pressed(s, x)
          [] op = "SkipIfNotPressed" -> skip_if_not_pressed(s, x)
          [] op = "CopyDelayTimer" -> copy_delay_timer(s, x)
          [] op = "WaitForKey" -> wait_for_key(s, x)
          [] op = "SetDelayTimer" -> set_delay_timer(s, x)
          [] op = "SetSoundTimer" -> set_sound_timer(s, x)
          [] op = "AddToIndex" -> add_to_index(s, x)
          [] op = "SetIndexToFont" -> set_index_to_font(s, x)
          [] op = "BinaryConversion" -> binary_conversion(s, x)
          [] op = "Store" -> store(s, x)
          [] op = "Load" -> load(s, x)
          [] OTHER -> Panic(s, "Unknown instruction found")

(***************************************************************************)
(* Start-up: Chip8::new, then the head of Chip8::run.                      *)
(***************************************************************************)
\* Chip8::load_fonts: the glyphs, one after the other, from FONT_START.
\* memory[dest..(dest + src.len())].copy_from_slice(src)
copy_from_slice(m, dest, src) ==
    LET range == dest..(dest + Len(src) - 1)
        cells == {a \in range : src[(a - dest) + 1] # 0} \cup ((DOMAIN m) \ range)
    IN  [a \in cells |-> IF a \in range THEN src[(a - dest) + 1] ELSE m[a]]

\* The glyphs one after the other, as the loop of load_fonts lays them out.
RECURSIVE font_bytes(_)
font_bytes(k) == IF k > Len(Fonts) THEN <<>> ELSE Fonts[k] \o font_bytes(k + 1)

load_fonts(m) == copy_from_slice(m, FONT_START, font_bytes(1))

\* load_rom_panics rejecting a file that fills the memory to its last cell.
load_rom_rejects_full(file_content) == Len(file_content) >= MEMORY_SIZE - ROM_START

load_rom_panics(file_content) == Len(file_content) > MEMORY_SIZE - ROM_START

\* Chip8::load_rom: the file's bytes from ROM_START.
load_rom(m, file_content) == copy_from_slice(m, ROM_START, file_content)

\* The state of the CPU thread as one record, for the handlers.
Cpu ==
    [memory |-> memory, pc |-> pc, i |-> i, stack |-> stack, regs |-> regs,
     display |-> display, keypad |-> keypad, delay_timer |-> delay_timer,
     sound_timer |-> sound_timer, held |-> held, peak |-> peak,
     status |-> status, panic_msg |-> panic_msg, failed |-> failed,
     exit_code |-> exit_code]

\* What the history variables keep of the state before an instruction.
Snapshot ==
    [pc |-> pc, i |-> i, stack |-> stack, regs |-> regs, display |-> display,
     keypad |-> keypad, delay_timer |-> delay_timer, sound_timer |-> sound_timer]

\* What is kept of the state before the instruction before that.
Snapshot2(p) == [i |-> p.i, regs |-> p.regs, display |-> p.display]

\* The sound thread before it has opened the audio output.
Opening == [at |-> "open", seen |-> 0]

\* A timer thread in its sleep, and one that has locked its timer and read it.
Asleep == [at |-> "sleep", seen |-> 0]

Locked(value) == [at |-> "locked", seen |-> value]

\* The log of a timer no FX15/FX18 has stored to: it was constructed as 0.
NoStore == [v |-> 0, k |-> 0, base |-> 0]

\* The log after the CPU has executed instr: FX15 and FX18 store Vx.
Stored(l, instr, s) ==
    IF s.status # "running" THEN l
    ELSE IF instr.op = "SetDelayTimer"
    THEN [l EXCEPT !.delay_timer.v = s.delay_timer, !.delay_timer.k = 0]
    ELSE IF instr.op = "SetSoundTimer"
    THEN [l EXCEPT !.sound_timer.v = s.sound_timer, !.sound_timer.k = 0]
    ELSE l

\* The log of a timer after a pass of its thread that left it at value.
Ticked(l, value) == [l EXCEPT !.k = IF @ < l.v THEN @ + 1 ELSE @, !.base = value]

\* lock_blocks for a CPU thread that takes no notice of the mutexes.
lock_never_blocks(instr) == FALSE

\* Whether the CPU thread, executing instr, finds the mutex it locks held by
\* a timer thread: Mutex::lock then blocks until the guard is dropped.
lock_blocks(instr) ==
    \/ instr.op \in {"CopyDelayTimer", "SetDelayTimer"} /\ delay_thread.at = "locked"
    \/ instr.op = "SetSoundTimer" /\ sound_thread.at = "locked"

\* Chip8::new and App::new: everything zero, the stack a vector of
\* STACK_SIZE zeros, the display dark, no key pressed.
\* draw_sprite is not running.
Idle == [at |-> "idle", x |-> 0, y |-> 0, n |-> 0, row |-> 0, bit |-> 0,
         led_status |-> FALSE]

\* wait_for_key is not running.
NoScan == [at |-> "idle", reg |-> 0, key |-> 0]

Constructed ==
    /\ memory = [a \in {} |-> 0]
    /\ pc = 0
    /\ i = 0
    /\ stack = [k \in 1..STACK_SIZE |-> 0]
    /\ regs = [r \in 0..(REGISTERS_SIZE - 1) |-> 0]
    /\ display = display_clear_screen(FALSE)
    /\ keypad = [k \in 1..KEYPAD_SIZE |-> FALSE]
    /\ delay_timer = 0
    /\ sound_timer = 0
    /\ playing_timer = 0
    /\ held = {}
    /\ delay_thread = Asleep
    /\ sound_thread = Opening
    /\ tone = 0
    /\ log = [delay_timer |-> NoStore, sound_timer |-> NoStore]
    /\ peak = 0
    /\ status = "new"
    /\ panic_msg = ""
    /\ failed = {}
    /\ exit_code = -1
    /\ drawing = Idle
    /\ frame = display_clear_screen(FALSE)
    /\ scanning = NoScan
    /\ overflow_checks \in BOOLEAN
    /\ last = NoInstr
    /\ last2 = NoInstr
    /\ pre = Snapshot
    /\ pre2 = Snapshot2(Snapshot)

\* The machine on a host whose audio output works.  On any other host the
\* sound thread's first statement ends the process (see SoundOpen), so this
\* is the host of every specification but the one that checks just that.
InitMachine == Constructed /\ audio = "works"

\* Chip8::run up to its loop: load_fonts, load_rom, start_timers (which
\* spawns the two timer threads), pc = ROM_START.
Start ==
    /\ status = "new"
    /\ IF load_rom_panics(rom)
       THEN LET t == Panic(Cpu, "ROM content is too large")
            IN  /\ memory' = load_fonts(memory)
                /\ status' = t.status
                /\ panic_msg' = t.panic_msg
                /\ failed' = t.failed
                /\ exit_code' = t.exit_code
                /\ pc' = pc
       ELSE /\ memory' = load_rom(load_fonts(memory), rom)
            /\ status' = "running"
            /\ pc' = ROM_START
            /\ UNCHANGED <<panic_msg, failed, exit_code>>
    /\ UNCHANGED <<i, stack, regs, display, keypad, delay_timer, sound_timer,
                   playing_timer, held, delay_thread, sound_thread, tone, log,
                   peak, audio, drawing, frame, scanning, overflow_checks, rom,
                   last, pre, last2, pre2>>

\* The bytes rng.gen() may return for the instruction about to run.
RandomBytes(instr) == IF instr.op = "Random" THEN {0, 85, 170, 255} ELSE {0}

\* One pass of the loop of Chip8::run: fetch, decode, execute.
Cycle ==
    /\ status = "running"
    /\ drawing.at = "idle"
    /\ scanning.at = "idle"
    /\ \E f \in {fetch(Cpu)} :
       \E instr \in {IF f.status = "running" THEN Decode(fetch_word(Cpu)) ELSE NoInstr} :
           /\ ~(instr.op = "Call" /\ Len(stack) >= STACK_SIZE + MaxPending)
           /\ ~lock_blocks(instr)
           /\ \E rnd \in RandomBytes(instr) :
              \E t \in {IF f.status = "running" THEN execute(f, instr, rnd) ELSE f} :
                    /\ memory' = t.memory
                    /\ pc' = t.pc
                    /\ i' = t.i
                    /\ stack' = t.stack
                    /\ regs' = t.regs
                    /\ display' = t.display
                    /\ keypad' = t.keypad
                    /\ delay_timer' = t.delay_timer
                    /\ sound_timer' = t.sound_timer
                    /\ held' = t.held
                    /\ peak' = t.peak
                    /\ failed' = t.failed
                    /\ exit_code' = t.exit_code
                    /\ status' = t.status
                    /\ panic_msg' = t.panic_msg
                    /\ log' = Stored(log, instr, t)
           /\ last' = instr
           /\ pre' = Snapshot
           /\ last2' = last
           /\ pre2' = Snapshot2(pre)
    /\ UNCHANGED <<playing_timer, delay_thread, sound_thread, tone, audio,
                   drawing, frame, scanning, overflow_checks, rom>>

(***************************************************************************)
(* The timer threads of Chip8::start_timers and the host's key events of   *)
(* App::run.  Each pass of a timer thread's loop runs under the guard of   *)
(* its timer's mutex: DelayTick and SoundTick are whole passes, for the    *)
(* specifications in which the timers only run along; DelayLock,           *)
(* DelayDecrement, SoundLock and SoundDecrement are the same passes step   *)
(* by step, for the specifications that check the locking itself.          *)
(***************************************************************************)
\* delay_pass decrementing without the test against 0.
delay_pass_wrapping(seen, timer) == (seen + U8 - 1) % U8

\* What the delay thread writes after reading seen: if *timer > 0 { *timer -= 1 }.
\* delay_pass decrementing only above 1: the counter stops at 1.
delay_pass_stops_at_one(seen, timer) == IF seen > 1 THEN seen - 1 ELSE timer

delay_pass(seen, timer) == IF seen > 0 THEN seen - 1 ELSE timer

\* sound_pass starting a tone for every value above 0 it reads.
sound_pass_retriggers(seen, timer, playing) ==
    LET starts == seen > 0
        now_playing == IF starts THEN seen ELSE playing
    IN  [panics |-> starts /\ audio = "play_fails",
         tone |-> IF starts THEN now_playing ELSE 0,
         sound_timer |-> IF seen > 0 THEN seen - 1 ELSE timer,
         playing_timer |-> IF seen > 0 THEN now_playing ELSE 0]

\* What the sound thread does after reading seen, with playing_timer playing:
\* it starts a tone for a value above playing_timer (play_raw(..).unwrap()
\* panics if the output cannot play it), then decrements the timer, or
\* clears playing_timer when it read 0.
sound_pass(seen, timer, playing) ==
    LET starts == seen > 0 /\ seen > playing
        now_playing == IF starts THEN seen ELSE playing
    IN  [panics |-> starts /\ audio = "play_fails",
         tone |-> IF starts THEN now_playing ELSE 0,
         sound_timer |-> IF seen > 0 THEN seen - 1 ELSE timer,
         playing_timer |-> IF seen > 0 THEN now_playing ELSE 0]

\* The variables only the CPU thread writes, and those that neither the
\* timer threads nor the key events write.
cpu_vars ==
    <<memory, pc, i, stack, regs, display, held, peak, drawing, scanning, last, pre,
      last2, pre2>>

host_vars == <<audio, frame, overflow_checks, rom>>

\* A timer thread that has panicked.
Dead == [at |-> "dead", seen |-> 0]

\* A panic on the sound thread: the hook runs on it as on any thread.
SoundPanics(msg) ==
    /\ LET p == panic_hook([status |-> status, exit_code |-> exit_code])
       IN  status' = p.status /\ exit_code' = p.exit_code
    /\ failed' = failed \cup {"sound"}
    /\ panic_msg' = msg
    /\ sound_thread' = Dead

\* The sound thread's first statement: OutputStream::try_default().unwrap().
SoundOpen ==
    /\ status = "running"
    /\ sound_thread.at = "open"
    /\ IF audio = "no_device"
       THEN SoundPanics("called Result::unwrap() on an Err value: NoDevice")
       ELSE /\ sound_thread' = Asleep
            /\ UNCHANGED <<status, panic_msg, failed, exit_code>>
    /\ UNCHANGED <<cpu_vars, host_vars, keypad, delay_timer, sound_timer,
                   playing_timer, delay_thread, tone, log>>

\* A whole pass of the delay thread's loop, from lock() to the drop of the guard.
DelayTick ==
    /\ status = "running"
    /\ "delay_timer" \notin held
    /\ delay_thread.at = "sleep"
    /\ delay_timer' = delay_pass(delay_timer, delay_timer)
    /\ log' = [log EXCEPT !.delay_timer = Ticked(@, delay_timer')]
    /\ UNCHANGED <<cpu_vars, host_vars, keypad, sound_timer, playing_timer,
                   delay_thread, sound_thread, tone, status, panic_msg, failed,
                   exit_code>>

\* A whole pass of the sound thread's loop.
SoundTick ==
    /\ status = "running"
    /\ "sound_timer" \notin held
    /\ sound_thread.at = "sleep"
    /\ LET p == sound_pass(sound_timer, sound_timer, playing_timer)
       IN  IF p.panics
           THEN /\ SoundPanics("called Result::unwrap() on an Err value: PlayError")
                /\ UNCHANGED <<sound_timer, playing_timer, tone, log>>
           ELSE /\ sound_timer' = p.sound_timer
                /\ playing_timer' = p.playing_timer
                /\ tone' = p.tone
                /\ log' = [log EXCEPT !.sound_timer = Ticked(@, sound_timer')]
                /\ UNCHANGED <<sound_thread, status, panic_msg, failed, exit_code>>
    /\ UNCHANGED <<cpu_vars, host_vars, keypad, delay_timer, delay_thread>>

\* The same passes in two steps each.  First the thread wakes up, locks its
\* timer and reads it; the reads of the test and of the decrement see one
\* value, since the guard is held between them.
DelayLock ==
    /\ status = "running"
    /\ "delay_timer" \notin held
    /\ delay_thread.at = "sleep"
    /\ delay_thread' = Locked(delay_timer)
    /\ UNCHANGED <<cpu_vars, host_vars, keypad, delay_timer, sound_timer,
                   playing_timer, sound_thread, tone, log, status, panic_msg,
                   failed, exit_code>>

SoundLock ==
    /\ status = "running"
    /\ "sound_timer" \notin held
    /\ sound_thread.at = "sleep"
    /\ sound_thread' = Locked(sound_timer)
    /\ UNCHANGED <<cpu_vars, host_vars, keypad, delay_timer, sound_timer,
                   playing_timer, delay_thread, tone, log, status, panic_msg,
                   failed, exit_code>>

\* Then it writes the counter and drops the guard at the end of the loop's body.
DelayDecrement ==
    /\ status = "running"
    /\ delay_thread.at = "locked"
    /\ delay_timer' = delay_pass(delay_thread.seen, delay_timer)
    /\ delay_thread' = Asleep
    /\ log' = [log EXCEPT !.delay_timer = Ticked(@, delay_timer')]
    /\ UNCHANGED <<cpu_vars, host_vars, keypad, sound_timer, playing_timer,
                   sound_thread, tone, status, panic_msg, failed, exit_code>>

SoundDecrement ==
    /\ status = "running"
    /\ sound_thread.at = "locked"
    /\ LET p == sound_pass(sound_thread.seen, sound_timer, playing_timer)
       IN  IF p.panics
           THEN /\ SoundPanics("called Result::unwrap() on an Err value: PlayError")
                /\ UNCHANGED <<sound_timer, playing_timer, tone, log>>
           ELSE /\ sound_timer' = p.sound_timer
                /\ playing_timer' = p.playing_timer
                /\ tone' = p.tone
                /\ sound_thread' = Asleep
                /\ log' = [log EXCEPT !.sound_timer = Ticked(@, sound_timer')]
                /\ UNCHANGED <<status, panic_msg, failed, exit_code>>
    /\ UNCHANGED <<cpu_vars, host_vars, keypad, delay_timer, delay_thread>>

HostKeys == 0..MaxKey

KeyPress ==
    /\ status # "panic"
    /\ "keypad" \notin held
    /\ \E code \in HostKeys : keypad' = set_is_pressed(keypad, code, TRUE)
    /\ UNCHANGED <<cpu_vars, host_vars, delay_timer, sound_timer, playing_timer,
                   delay_thread, sound_thread, tone, log, status, panic_msg,
                   failed, exit_code>>

KeyRelease ==
    /\ status # "panic"
    /\ "keypad" \notin held
    /\ \E code \in HostKeys : keypad' = set_is_pressed(keypad, code, FALSE)
    /\ UNCHANGED <<cpu_vars, host_vars, delay_timer, sound_timer, playing_timer,
                   delay_thread, sound_thread, tone, log, status, panic_msg,
                   failed, exit_code>>

(***************************************************************************)
(* The ROMs the checks run.  A ROM is a sequence of bytes; Words turns     *)
(* 16-bit instruction words into their big-endian byte pairs.              *)
(***************************************************************************)
RECURSIVE Words(_)
Words(ws) ==
    IF ws = <<>> THEN <<>>
    ELSE <<Head(ws) \div 256, Head(ws) % 256>> \o Words(Tail(ws))

\* Operand bytes: the low end, the high end, and around the sign bit.
Vals == (0..MaxLow) \cup ((255 - MaxLow)..255) \cup {127, 128}

OpXNN(op, x, nn) == (op * 4096) + (x * 256) + nn

OpXYN(op, x, y, n) == (op * 4096) + (x * 256) + (y * 16) + n

\* 6Xa 6Yb 8XYk: load two registers, then one arithmetic instruction.
AluPairs == {<<0, 1>>, <<1, 1>>, <<0, 15>>, <<15, 0>>, <<15, 15>>}

AluRoms ==
    {Words(<<OpXNN(6, xy[1], a), OpXNN(6, xy[2], b), OpXYN(8, xy[1], xy[2], k)>>) :
        xy \in AluPairs, a \in Vals, b \in Vals, k \in {4, 5, 6, 7, 14}}

InitAlu == InitMachine /\ rom \in AluRoms

NextCpu == Start \/ Cycle

Next ==
    Start \/ Cycle \/ SoundOpen \/ DelayTick \/ SoundTick \/ KeyPress \/ KeyRelease

\* The CPU thread alone runs AluRoms: these ROMs touch neither the keypad
\* nor a timer, so the other threads cannot change what they compute.
SpecAlu == InitAlu /\ [][NextCpu]_vars

\* 6Xv FX15 FX18 FX07 FX0A EX9E 1206: the timers are loaded, then the CPU
\* polls the delay timer and the keypad for ever.
SystemRoms ==
    {Words(<<OpXNN(6, 0, v), 61461, 61464, 61447, 61450, 57502, 4614>>) :
        v \in 0..MaxLow}

\* The whole system: the CPU, both timer threads and the host's key events.
Init == InitMachine /\ rom \in SystemRoms

Spec == Init /\ [][Next]_vars

(***************************************************************************)
(* Arithmetic instructions, checked on the CPU thread running AluRoms.     *)
(***************************************************************************)
\* The instruction executed last ran to its end (no panic), and was op.
Ran(op) == status = "running" /\ last.op = op

\* The values Vx and Vy held when the instruction executed last was fetched.
PreVx == pre.regs[last.x]

PreVy == pre.regs[last.y]

Flag(b) == IF b THEN 1 ELSE 0

\* C1 (as claimed): after 8XY5 with X # F, Vx = (a - b) mod 256 and VF = 1
\* exactly when a >= b, so also when a = b.
C1_SubBorrowFlag ==
    (last.op = "LogicalSubtract" /\ last.x # 15) =>
        /\ status = "running"
        /\ regs[last.x] = (PreVx - PreVy) % U8
        /\ regs[15] = Flag(PreVx >= PreVy)

\* C2 (as claimed): after 8XY7 with X # F, Vx = (b - a) mod 256, wrapping
\* when a > b, and VF = 1 exactly when b >= a.
C2_SubInvWraps ==
    (last.op = "LogicalSubtractInverse" /\ last.x # 15) =>
        /\ status = "running"
        /\ regs[last.x] = (PreVy - PreVx) % U8
        /\ regs[15] = Flag(PreVy >= PreVx)

\* C3: after 8XY4 with X # F, Vx = (a + b) mod 256 and VF = 1 exactly when
\* a + b > 255, else 0; the instruction never panics.
C3_AddCarry ==
    (last.op = "LogicalAdd" /\ last.x # 15) =>
        /\ status = "running"
        /\ regs[last.x] = (PreVx + PreVy) % U8
        /\ regs[15] = Flag(PreVx + PreVy > 255)

\* C3's case: an 8XY4 with X # F whose sum overflowed, and one whose sum is
\* exactly 255, have both run.
C3_Witness ==
    /\ Ran("LogicalAdd")
    /\ last.x # 15
    /\ PreVx + PreVy > 255
    /\ regs[15] = 1
    /\ regs[last.x] = (PreVx + PreVy) - 256

\* The flags the instruction executed last may leave in VF, from the
\* register values before it.  For 8XY5 both readings of the flag at a = b
\* are taken (which of them is right is C1's matter, not this claim's).
FlagOf(op, a, b) ==
    CASE op = "LogicalAdd" -> {Flag(a + b > 255)}
      [] op = "LogicalSubtract" -> {Flag(a >= b), Flag(a > b)}
      [] op = "LogicalSubtractInverse" -> {Flag(b >= a)}
      [] op = "LogicalRightShift" -> {a % 2}
      [] op = "LogicalLeftShift" -> {Bit(a, 7)}
      [] OTHER -> {}

FlagOps ==
    {"LogicalAdd", "LogicalSubtract", "LogicalSubtractInverse",
     "LogicalRightShift", "LogicalLeftShift"}

\* C4 (as claimed): 8XY4, 8XY5, 8XY7, 8XY6 and 8XYE with X = F complete
\* without a panic and leave the flag in VF, computed from the old VF.
C4_FlagWrittenLast ==
    (last.op \in FlagOps /\ last.x = 15) =>
        /\ status = "running"
        /\ regs[15] \in FlagOf(last.op, PreVx, PreVy)

(***************************************************************************)
(* Call and return, checked on the CPU thread running StackRoms.           *)
(***************************************************************************)
StackRoms ==
    { Words(<<238>>),                                   \* 00EE
      Words(<<8704>>),                                  \* 2200
      Words(<<8708, 0, 238>>),                          \* 2204 0000 00EE
      Words(<<8710, 4610, 0, 8714, 238, 238>>),         \* 2206 1202 0000 220A 00EE 00EE
      Words(<<8708, 238, 8706>>) }                      \* 2204 00EE 2202

InitStack == InitMachine /\ rom \in StackRoms

SpecStack == InitStack /\ [][NextCpu]_vars

\* The return addresses CALLs have pushed and no RET has popped yet.  A CALL
\* pushes the PC after its fetch, which is never 0.
Pending(st) == Cardinality({k \in DOMAIN st : st[k] # 0})

\* C5 (as claimed): 00EE with no call pending is fatal.
C5_ReturnOnEmptyIsFatal ==
    (last.op = "Return" /\ Pending(pre.stack) = 0) => status = "panic"

\* C6 (as claimed): the stack never holds more than STACK_SIZE return
\* addresses, a further 2NNN being fatal.
C6_StackNeverExceedsCapacity ==
    /\ Pending(stack) <= STACK_SIZE
    /\ (last.op = "Call" /\ Pending(pre.stack) >= STACK_SIZE) => status = "panic"

\* C7 (as claimed): 2NNN fetched at A pushes A + 2 and jumps to NNN, the
\* matching 00EE returns to A + 2 and removes the entry, and once every call
\* has returned the stack is empty again.
C7_CallReturnLifo ==
    /\ Ran("Call") => (pc = last.nnn /\ stack = Append(pre.stack, pre.pc + 2))
    /\ (last.op = "Return" /\ Pending(pre.stack) > 0) =>
          /\ status = "running"
          /\ pc = pre.stack[Len(pre.stack)]
          /\ stack = SubSeq(pre.stack, 1, Len(pre.stack) - 1)
    /\ (Ran("Return") /\ Pending(pre.stack) > 0 /\ Pending(stack) = 0) => stack = <<>>

(***************************************************************************)
(* Sprite drawing, checked on the CPU thread running DrawRoms:             *)
(*   6Xa 6Yb AIII DXYn DXYn            the same sprite drawn twice         *)
(*   6Xa 6Yb AIII DXYn 7X01 DXYn 0000  and drawn again one column further  *)
(* followed by the bytes of a sprite at SpriteAddr.                        *)
(***************************************************************************)
SpriteAddr == ROM_START + 14

SpriteData == <<1, 255, 129>>

\* I: the glyph '0' of the font, and the sprite the ROM carries.
DrawIs == {FONT_START, SpriteAddr}

DrawNs == (0..MaxRows) \cup {15}

DrawPairs == {<<0, 1>>, <<15, 1>>}

DrawRoms ==
    {Words(<<OpXNN(6, xy[1], a), OpXNN(6, xy[2], b), 40960 + ii,
             OpXYN(13, xy[1], xy[2], n)>>
           \o (IF again THEN <<OpXYN(13, xy[1], xy[2], n), 0, 0>>
               ELSE <<OpXNN(7, xy[1], 1), OpXYN(13, xy[1], xy[2], n), 0>>))
       \o SpriteData :
        xy \in DrawPairs, a \in Vals, b \in Vals, ii \in DrawIs, n \in DrawNs,
        again \in BOOLEAN}

InitDraw == InitMachine /\ rom \in DrawRoms

SpecDraw == InitDraw /\ [][NextCpu]_vars

\* Where the DXYN executed last started: (Vx mod 64, Vy mod 32).
DrawX0 == pre.regs[last.x] % DISPLAY_WIDTH

DrawY0 == pre.regs[last.y] % DISPLAY_HEIGHT

\* The cells the instruction executed last turned off, and turned on.
TurnedOff == pre.display \ display

TurnedOn == display \ pre.display

\* The last two instructions were the same DXYN, with the same Vx, Vy and I,
\* the first of them on a clear display, and both ran to their end.
DrawnTwice ==
    /\ Ran("Display")
    /\ last2 = last
    /\ pre.regs[last.x] = pre2.regs[last.x]
    /\ pre.regs[last.y] = pre2.regs[last.y]
    /\ pre.i = pre2.i
    /\ pre2.display = {}

\* C8 (as claimed): the second of two equal draws on a clear display leaves
\* the display clear and VF = 1.
C8_DrawTwiceSetsVF == DrawnTwice => (display = {} /\ regs[15] = 1)

\* C8 (amended): the second of two equal draws on a clear display leaves the
\* display clear, and VF = 1 exactly when the first draw lit a cell.
C8_DrawTwiceClears ==
    DrawnTwice => (display = {} /\ regs[15] = Flag(pre.display # {}))

\* C8's case: a sprite that lit cells has been drawn a second time.
C8_Witness == DrawnTwice /\ pre.display # {} /\ display = {} /\ regs[15] = 1

\* C9: after DXYN, VF = 1 exactly when the instruction turned off a cell that
\* was lit before it, and VF = 0 otherwise, whatever VF held before.
C9_CollisionFlag == Ran("Display") => regs[15] = Flag(TurnedOff # {})

\* C9's case: a draw over a partly lit area, turning cells off and others on.
C9_Witness ==
    /\ Ran("Display")
    /\ TurnedOff # {}
    /\ TurnedOn # {}
    /\ regs[15] = 1
    /\ pre.regs[15] = 0

\* C10: DXYN never indexes the display outside the grid, the cells it changes
\* all lie in the rows y0..y0+N-1 and columns x0..x0+7 that are on the
\* screen (nothing wraps to the other edge), and the top-left sprite bit
\* lands on (Vx mod 64, Vy mod 32).
C10_DrawClips ==
    /\ panic_msg # "coordinate is too large"
    /\ Ran("Display") =>
          /\ \A pos \in TurnedOff \cup TurnedOn :
                LET px == pos % (DISPLAY_WIDTH + 1)
                    py == pos \div (DISPLAY_WIDTH + 1)
                IN  /\ DrawX0 <= px /\ px <= DrawX0 + 7 /\ px < DISPLAY_WIDTH
                    /\ DrawY0 <= py /\ py < DrawY0 + last.n /\ py < DISPLAY_HEIGHT
          /\ (last.n > 0 /\ Bit(MemGet(memory, pre.i), 7) = 1) =>
                get_pos(DrawX0, DrawY0) \in TurnedOff \cup TurnedOn

\* C10's case: a sprite reaching over the right and the bottom edge was drawn.
C10_Witness ==
    /\ Ran("Display")
    /\ DrawX0 + 7 >= DISPLAY_WIDTH
    /\ DrawY0 + last.n > DISPLAY_HEIGHT
    /\ TurnedOn # {}

\* The memory right after Chip8::run has loaded the fonts and the ROM.
LoadedImage == load_rom(load_fonts([a \in {} |-> 0]), rom)

\* The cells of the screen a high sprite bit of the DXYN executed last lands
\* on: (x0 + col, y0 + row) for col < 8, row < N, where bit 7 - col of
\* memory[I + row] is 1.
SpriteCells ==
    {get_pos(DrawX0 + col, DrawY0 + row) :
        <<col, row>> \in
            {cr \in (0..7) \X (0..(last.n - 1)) :
                /\ DrawX0 + cr[1] < DISPLAY_WIDTH
                /\ DrawY0 + cr[2] < DISPLAY_HEIGHT
                /\ Bit(MemGet(memory, pre.i + cr[2]), 7 - cr[1]) = 1}}

\* C11: after DXYN every cell on the screen is its old state XOR the sprite
\* bit that lands on it (bit 7 - col of memory[I + row], the most
\* significant bit leftmost), cells no sprite bit lands on keep their state,
\* and the memory, I, the stack, PC beyond the fetch and V0..VE are unchanged.
C11_DrawXorsSprite ==
    Ran("Display") =>
        /\ display = (pre.display \ SpriteCells) \cup (SpriteCells \ pre.display)
        /\ memory = LoadedImage
        /\ i = pre.i
        /\ stack = pre.stack
        /\ pc = pre.pc + 2
        /\ \A r \in 0..14 : regs[r] = pre.regs[r]

\* C11's case: a sprite of 15 rows drawn over a lit area, with cells turned
\* on, cells turned off and lit cells left alone.
C11_Witness ==
    /\ Ran("Display")
    /\ last.n = 15
    /\ TurnedOn # {}
    /\ TurnedOff # {}
    /\ pre.display \cap display # {}

(***************************************************************************)
(* The keypad instructions, checked on the whole system running ROMs that  *)
(* start both timers and then test a key:                                  *)
(*   6E02 FE15 FE18 6Xv EX9E 0000      and the same with EXA1              *)
(***************************************************************************)
\* Key register values: Vals, and the values around the keypad's size.
KeyVals == Vals \cup {KEYPAD_SIZE - 1, KEYPAD_SIZE, KEYPAD_SIZE + 1}

KeyRoms ==
    {Words(<<OpXNN(6, 14, 2), OpXNN(15, 14, 21), OpXNN(15, 14, 24),
             OpXNN(6, x, v), OpXNN(14, x, k), 0>>) :
        x \in {0, 15}, v \in KeyVals, k \in {158, 161}}

InitKeys == InitMachine /\ rom \in KeyRoms

SpecKeys == InitKeys /\ [][Next]_vars

\* C12 (as claimed): EX9E and EXA1 are never fatal, and skip exactly when
\* keypad[Vx & 0xF] is pressed (EX9E) or not pressed (EXA1).
C12_KeySkipsMaskVx ==
    last.op \in {"SkipIfPressed", "SkipIfNotPressed"} =>
        /\ status = "running"
        /\ LET key == BitAnd(pre.regs[last.x], 15)
               skip == get_is_pressed(pre.keypad, key) = (last.op = "SkipIfPressed")
           IN  pc = pre.pc + 2 + (IF skip THEN 2 ELSE 0)

(***************************************************************************)
(* FX29, checked on the CPU thread running the ROMs 6Xv FX29 0000.         *)
(***************************************************************************)
FontRoms ==
    {Words(<<OpXNN(6, x, v), OpXNN(15, x, 41), 0>>) : x \in {0, 15}, v \in KeyVals}

InitFont == InitMachine /\ rom \in FontRoms

SpecFont == InitFont /\ [][NextCpu]_vars

\* The addresses of the first bytes of the 16 glyphs.
GlyphStarts == {FONT_START + (FONT_SIZE * g) : g \in 0..(Len(Fonts) - 1)}

\* C13 (as claimed): FX29 sets I to FONT_START + 5 * (Vx & 0xF), the first
\* byte of a glyph, for every value of Vx.
C13_FontIndexMasked ==
    Ran("SetIndexToFont") =>
        /\ i = FONT_START + (FONT_SIZE * BitAnd(PreVx, 15))
        /\ i \in GlyphStarts

(***************************************************************************)
(* FX0A, checked on the whole system running SystemRoms.                   *)
(***************************************************************************)
\* The key codes pressed in keypad k.
PressedKeys(k) == {code \in 0..(Len(k) - 1) : get_is_pressed(k, code)}

\* C14: FX0A is never fatal.  With no key pressed when it executes, PC is
\* back at the address of the FX0A after the cycle and no register changed;
\* with a key pressed, Vx holds the code (0..15) of a pressed key, the lowest
\* one, the other registers are unchanged and PC is past the instruction.
C14_WaitForKeyBlocks ==
    last.op = "WaitForKey" =>
        /\ status = "running"
        /\ IF PressedKeys(pre.keypad) = {}
           THEN pc = pre.pc /\ regs = pre.regs
           ELSE /\ pc = pre.pc + 2
                /\ regs[last.x] \in PressedKeys(pre.keypad)
                /\ regs[last.x] \in 0..15
                /\ \A code \in PressedKeys(pre.keypad) : regs[last.x] <= code
                /\ \A r \in (DOMAIN regs) \ {last.x} : regs[r] = pre.regs[r]

\* C14's case: an FX0A that found no key was executed again, found key 1
\* pressed and completed.
C14_Witness ==
    /\ Ran("WaitForKey")
    /\ last2 = last
    /\ PressedKeys(pre.keypad) = {1}
    /\ regs[last.x] = 1
    /\ pc = pre.pc + 2

(***************************************************************************)
(* FX0A against the other threads, on the whole system running WaitRoms.   *)
(* The CPU thread sleeps between two passes of its loop and the scheduler  *)
(* lets it run again: weak fairness on Cycle.  Nothing is assumed of the   *)
(* host or of the timer threads.                                           *)
(***************************************************************************)
\* 6E01 FE15 FE18 FX0A 1206: both timers are started, then the CPU waits for
\* a key, over and over.
WaitRoms ==
    {Words(<<OpXNN(6, 14, 1), OpXNN(15, 14, 21), OpXNN(15, 14, 24),
             OpXNN(15, x, 10), 4614>>) : x \in {0, 5}}

InitWait == InitMachine /\ rom \in WaitRoms

SpecFair == InitWait /\ [][Next]_vars /\ WF_vars(Cycle)

\* The instruction the CPU executes next is an FX0A.
AtWait == status = "running" /\ ~fetch_panics(Cpu) /\ Decode(fetch_word(Cpu)).op = "WaitForKey"

\* The FX0A executed last found no key: the CPU sleeps, then executes it again.
Blocked == Ran("WaitForKey") /\ pc = pre.pc

\* The FX0A executed last found a key.
Completed == Ran("WaitForKey") /\ pc = pre.pc + 2

\* C15: while an FX0A that found no key waits to be executed again, the CPU
\* thread holds no mutex, the host can press a key, and each timer thread can
\* decrement a counter that is not 0 (the sound thread once it has opened
\* the audio output); and with the CPU thread scheduled
\* fairly, an FX0A about to execute with a key pressed completes unless the
\* host releases the key first.
C15_WaitHoldsNoLock ==
    /\ [](Blocked =>
            /\ held = {}
            /\ ENABLED (KeyPress /\ PressedKeys(keypad') # {})
            /\ delay_timer > 0 => ENABLED (DelayTick /\ delay_timer' = delay_timer - 1)
            /\ (sound_timer > 0 /\ sound_thread.at = "sleep") =>
                  ENABLED (SoundTick /\ sound_timer' = sound_timer - 1))
    /\ ((AtWait /\ PressedKeys(keypad) # {}) ~> (Completed \/ PressedKeys(keypad) = {}))

\* C15's case: while the CPU was blocked in FX0A with both timers running,
\* the delay timer ticked and the host pressed a key.
C15_Witness ==
    /\ Blocked
    /\ PressedKeys(pre.keypad) = {}
    /\ PressedKeys(keypad) # {}
    /\ delay_timer < pre.delay_timer
    /\ sound_timer > 0

(***************************************************************************)
(* The timers, checked with the timer threads taken step by step against   *)
(* the CPU thread running the ROMs                                         *)
(*   6Ea FE15 FE18 F007 6Eb FE18 FE15 F107 1210                            *)
(* which store a to both timers, read the delay timer, store b to both,    *)
(* read again and then spin.  These ROMs do not read the keypad, so the    *)
(* host's key events are left out.                                         *)
(***************************************************************************)
TimerRoms ==
    {Words(<<OpXNN(6, 14, a), OpXNN(15, 14, 21), OpXNN(15, 14, 24), OpXNN(15, 0, 7),
             OpXNN(6, 14, b), OpXNN(15, 14, 24), OpXNN(15, 14, 21), OpXNN(15, 1, 7),
             4624>>) : a \in 0..MaxLow, b \in 0..MaxLow}

InitTimers == InitMachine /\ rom \in TimerRoms

NextTimers ==
    \/ Start \/ Cycle \/ SoundOpen
    \/ DelayLock \/ DelayDecrement \/ SoundLock \/ SoundDecrement

SpecTimers == InitTimers /\ [][NextTimers]_vars

\* The instruction the CPU executes next, if it can fetch one.
NextInstr ==
    IF status = "running" /\ ~fetch_panics(Cpu) THEN Decode(fetch_word(Cpu)) ELSE NoInstr

\* This step is the CPU executing an instruction op (FX15 or FX18).
CpuStores(op) == NextInstr.op = op /\ last' = NextInstr /\ pc' = pc + 2

\* C16: a timer thread's pass decrements its counter by exactly 1 when it is
\* above 0 and leaves it at 0 otherwise; the counters stay bytes, and a
\* counter only ever rises in a step in which the CPU executes FX15 (delay
\* timer) or FX18 (sound timer).
C16_TimersOnlyFall ==
    [][/\ delay_timer' \in 0..(U8 - 1)
       /\ sound_timer' \in 0..(U8 - 1)
       /\ delay_timer' > delay_timer => CpuStores("SetDelayTimer")
       /\ sound_timer' > sound_timer => CpuStores("SetSoundTimer")
       /\ DelayDecrement =>
             delay_timer' = (IF delay_timer > 0 THEN delay_timer - 1 ELSE 0)
       /\ SoundDecrement =>
             sound_timer' = (IF sound_timer > 0 THEN sound_timer - 1 ELSE 0)]_vars

\* C16's case: both timers were loaded with 2 and counted down to 0, and the
\* sound thread has made a further pass over its counter at 0.
C16_Witness ==
    /\ log.delay_timer.v = 2 /\ log.delay_timer.k = 2 /\ delay_timer = 0
    /\ log.sound_timer.v = 2 /\ log.sound_timer.k = 2 /\ sound_timer = 0
    /\ playing_timer = 0

\* C17: a timer thread's read, test and decrement are one step for the CPU.
\* Each counter is max(v - k, 0), where v is what the CPU stored last and k
\* the number of passes the thread has made since (k is counted up to v, so
\* this is v - k): no decrement computed from the value before a store
\* overwrites the store.  And FX07 leaves in Vx the value the delay counter
\* held when the instruction executed.
C17_TimerPassAtomic ==
    /\ delay_timer = log.delay_timer.v - log.delay_timer.k
    /\ sound_timer = log.sound_timer.v - log.sound_timer.k
    /\ Ran("CopyDelayTimer") =>
          /\ regs[last.x] = pre.delay_timer
          /\ pre.delay_timer \in 0..log.delay_timer.v

\* C17's case: the delay thread holds the guard, having read a counter above
\* 0, while the CPU is about to store another value with FX15.
C17_Witness ==
    /\ NextInstr.op = "SetDelayTimer"
    /\ lock_blocks(NextInstr)
    /\ delay_thread.seen > 0
    /\ regs[NextInstr.x] # delay_thread.seen
    /\ log.delay_timer.k = 1

\* C18 (as claimed): when the sound thread's last pass left the counter at 0
\* (or it has made none) and it now finds the counter above 0, an FX18
\* having loaded it in between, this pass starts a tone for the value found.
C18_LoadFromZeroSounds ==
    [][(SoundDecrement /\ log.sound_timer.base = 0 /\ sound_timer > 0)
          => tone' = sound_timer]_vars

\* C19: only a pass of the sound thread starts a tone, and only for a counter
\* it finds above 0 and above playing_timer; a pass that finds the counter at
\* or below playing_timer starts none, and neither does a pass with no FX18
\* since the pass before it (k > 0: the plain decrement of a playing timer).
C19_ToneOnlyAbovePlaying ==
    [][/\ tone' # tone => SoundDecrement
       /\ SoundDecrement =>
             /\ tone' > 0 =>
                   (sound_timer > 0 /\ sound_timer > playing_timer /\ tone' = sound_timer)
             /\ sound_timer <= playing_timer => tone' = 0
             /\ log.sound_timer.k > 0 => tone' = 0]_vars

\* C19's case: the timer was playing a load of 2 when FX18 loaded 2 again,
\* and the next pass of the sound thread started no tone.
C19_Witness ==
    /\ log.sound_timer.v = 2
    /\ log.sound_timer.k = 1
    /\ playing_timer = 2
    /\ sound_timer = 1
    /\ tone = 0
    /\ last2.op = "SetSoundTimer"
    /\ pre2.regs[14] = 2

\* C20 (as claimed): every pass of the sound thread that leaves the counter
\* at 0, the pass that decrements it from 1 to 0 included, leaves
\* playing_timer at 0.
C20_PlayingResetsAtZero ==
    [][(SoundDecrement /\ sound_timer' = 0) => playing_timer' = 0]_vars

(***************************************************************************)
(* The audio output.  The sound thread opens it before its loop and plays  *)
(* every tone through it; InitAudio lets it work, be missing, or refuse    *)
(* the tones.                                                              *)
(***************************************************************************)
AudioOutputs == {"works", "no_device", "play_fails"}

\* 6Ea FE18 FE15 1206: both timers are loaded with a, then the CPU spins.
AudioRoms ==
    {Words(<<OpXNN(6, 14, a), OpXNN(15, 14, 24), OpXNN(15, 14, 21), 4614>>) :
        a \in 0..(MaxLow + 1)}

InitAudio == Constructed /\ audio \in AudioOutputs /\ rom \in AudioRoms

SpecAudio == InitAudio /\ [][NextTimers]_vars

\* C21 (as claimed): an audio output that cannot be opened, or that cannot
\* play a tone, is never fatal: the sound thread does not fail and the
\* process keeps running.
C21_AudioFailureNotFatal ==
    audio # "works" => ("sound" \notin failed /\ status # "panic")

(***************************************************************************)
(* The four mutexes: display, keypad, delay_timer, sound_timer.            *)
(***************************************************************************)
\* 00E0 6E01 FE15 FE18 F007 A050 D011 D011 E09E F10A 1214: the screen is
\* cleared, the timers are loaded and read, a glyph row is drawn twice (the
\* second time over itself), the keypad is polled and waited for.
LockRoms ==
    {Words(<<224, OpXNN(6, 14, v), OpXNN(15, 14, 21), OpXNN(15, 14, 24),
             OpXNN(15, 0, 7), 40960 + FONT_START, OpXYN(13, 0, 1, 1),
             OpXYN(13, 0, 1, 1), OpXNN(14, 0, 158), OpXNN(15, 1, 10), 4628>>) :
        v \in {1}}

InitLocks == InitMachine /\ rom \in LockRoms

NextLocks ==
    \/ Start \/ Cycle \/ SoundOpen
    \/ DelayLock \/ DelayDecrement \/ SoundLock \/ SoundDecrement
    \/ KeyPress \/ KeyRelease

SpecLocks == InitLocks /\ [][NextLocks]_vars

\* The guards each timer thread holds: the one of its own timer, from lock()
\* to the end of the loop's body.
DelayHolds == IF delay_thread.at = "locked" THEN {"delay_timer"} ELSE {}

SoundHolds == IF sound_thread.at = "locked" THEN {"sound_timer"} ELSE {}

\* C22: no thread holds two mutex guards at once.  The CPU thread never held
\* more than one guard, inside an instruction (DXYN's read and write of a
\* pixel included) or between two; each timer thread holds at most the
\* guard of its own timer; and no mutex is held by two threads.
C22_OneLockAtATime ==
    /\ peak <= 1
    /\ Cardinality(held) <= 1
    /\ Cardinality(DelayHolds) <= 1
    /\ Cardinality(SoundHolds) <= 1
    /\ held \cap (DelayHolds \cup SoundHolds) = {}
    /\ last.op \in {"Display", "ClearScreen", "SkipIfPressed", "SkipIfNotPressed",
                    "CopyDelayTimer", "SetDelayTimer", "SetSoundTimer"} => held = {}

\* C22's case: the CPU has drawn a sprite that cleared pixels (it read and
\* wrote the display), has locked the keypad and both timers, and a timer
\* thread holds its guard.
C22_Witness ==
    /\ last.op = "WaitForKey"
    /\ last2.op = "SkipIfPressed"
    /\ display = {}
    /\ regs[15] = 1
    /\ peak = 1
    /\ DelayHolds \cup SoundHolds # {}

(***************************************************************************)
(* Panics.  App::run installs a panic hook before it spawns the CPU        *)
(* thread; the hook runs on whichever thread panics.                       *)
(***************************************************************************)
\* 6E01 FE18 FE15 w: both timers are loaded, then the CPU returns from no
\* subroutine (00EE), decodes an unknown word (0123) or spins (1206).
PanicRoms ==
    {Words(<<OpXNN(6, 14, 1), OpXNN(15, 14, 24), OpXNN(15, 14, 21), w>>) :
        w \in {238, 291, 4614}}

InitPanic == Constructed /\ audio \in AudioOutputs /\ rom \in PanicRoms

SpecPanic == InitPanic /\ [][NextTimers]_vars

\* C23: once the CPU thread or a timer thread has panicked, the process has
\* exited with code 1, and no thread takes another step.
C23_PanicEndsProcess ==
    /\ [](failed # {} => (status = "panic" /\ exit_code = 1))
    /\ [][failed = {}]_vars

\* C23's case: the CPU thread panicked while a timer thread was in the
\* middle of a pass.
C23_Witness ==
    /\ failed = {"cpu"}
    /\ exit_code = 1
    /\ DelayHolds \cup SoundHolds # {}

(***************************************************************************)
(* The decoder, run on every 16-bit word: the ROM is the word alone, and   *)
(* the first cycle of the CPU fetches and decodes it.                      *)
(***************************************************************************)
WordRoms == {Words(<<w>>) : w \in 0..(U16 - 1)}

InitDecode == InitMachine /\ rom \in WordRoms

SpecDecode == InitDecode /\ [][NextCpu]_vars

\* The word a ROM of WordRoms holds, and its hexadecimal digit k (0 the lowest).
RomWord == (rom[1] * 256) + rom[2]

Nibble(w, k) == (w \div (16 ^ k)) % 16

\* The words the decoder is said to reject.
SaidUnknown(w) ==
    LET nn == (16 * Nibble(w, 1)) + Nibble(w, 0)
    IN  \/ Nibble(w, 3) = 0 /\ w \notin {224, 238}
        \/ Nibble(w, 3) \in {5, 9} /\ Nibble(w, 0) # 0
        \/ Nibble(w, 3) = 8 /\ Nibble(w, 0) \in (8..13) \cup {15}
        \/ Nibble(w, 3) = 14 /\ nn \notin {158, 161}
        \/ Nibble(w, 3) = 15 /\ nn \notin {7, 10, 21, 24, 30, 41, 51, 85, 101}

\* The variants of enum Instruction.
Variants ==
    {"ClearScreen", "Return", "Jump", "Call", "SkipIfEqual", "SkipIfDifferent",
     "SkipIfContentEqual", "SkipIfContentDifferent", "SetRegister", "AddToRegister",
     "LogicalCopy", "LogicalOr", "LogicalAnd", "LogicalXor", "LogicalAdd",
     "LogicalSubtract", "LogicalRightShift", "LogicalSubtractInverse",
     "LogicalLeftShift", "SetIndex", "JumpWithRegister", "Random", "Display",
     "SkipIfPressed", "SkipIfNotPressed", "CopyDelayTimer", "WaitForKey",
     "SetDelayTimer", "SetSoundTimer", "AddToIndex", "SetIndexToFont",
     "BinaryConversion", "Store", "Load"}

\* The first cycle has run: it decoded the word of the ROM.
FirstDecoded == last.op # "None" /\ last2.op = "None"

\* C24: every 16-bit word decodes either to one variant of Instruction, with
\* X, Y, N, NN and NNN the digits of the word at their fixed places, or to
\* the fatal unknown instruction; the words rejected are those said to be.
C24_DecoderTotal ==
    FirstDecoded =>
        /\ last.op \in Variants \cup {"Unknown"}
        /\ last.op = "Unknown" <=> SaidUnknown(RomWord)
        /\ last.op = "Unknown" => (status = "panic" /\ pre.pc = ROM_START)
        /\ last.x = Nibble(RomWord, 2)
        /\ last.y = Nibble(RomWord, 1)
        /\ last.n = Nibble(RomWord, 0)
        /\ last.nn = (16 * Nibble(RomWord, 1)) + Nibble(RomWord, 0)
        /\ last.nnn = (256 * Nibble(RomWord, 2)) + last.nn

\* C24's case: the word 8AB8 was decoded, and rejected.
C24_Witness ==
    /\ FirstDecoded
    /\ RomWord = 35512
    /\ last = [op |-> "Unknown", x |-> 10, y |-> 11, n |-> 8, nn |-> 184, nnn |-> 2744]
    /\ status = "panic"

(***************************************************************************)
(* Shifts, checked on the CPU thread running AluRoms.                      *)
(***************************************************************************)
\* C25: with X # F, 8XY6 leaves VF = bit 0 of the old Vx and Vx = old Vx >> 1,
\* 8XYE leaves VF = bit 7 of the old Vx and Vx = (old Vx << 1) mod 256,
\* whatever Vy holds; with Y # X and Y # F as well, Vy is unchanged.
C25_ShiftInPlace ==
    (last.op \in {"LogicalRightShift", "LogicalLeftShift"} /\ last.x # 15) =>
        /\ status = "running"
        /\ last.op = "LogicalRightShift" =>
              (regs[15] = PreVx % 2 /\ regs[last.x] = PreVx \div 2)
        /\ last.op = "LogicalLeftShift" =>
              (regs[15] = PreVx \div 128 /\ regs[last.x] = (PreVx * 2) % 256)
        /\ last.y \notin {last.x, 15} => regs[last.y] = PreVy
        /\ \A r \in (0..15) \ {last.x, 15} : regs[r] = pre.regs[r]

\* C25's case: V0 = 255 and V1 = 2, then 8016: the bit shifted out is 1 and
\* V1 differs from both V0 and the result.
C25_Witness ==
    /\ Ran("LogicalRightShift")
    /\ last.x = 0
    /\ last.y = 1
    /\ PreVx = 255
    /\ PreVy = 2
    /\ regs[0] = 127
    /\ regs[1] = 2
    /\ regs[15] = 1

(***************************************************************************)
(* 7XNN, checked on the CPU thread running AddRoms.                        *)
(***************************************************************************)
AddRegs == 0..15

\* 6Ff 6Xa 7Xb: VF and Vx are loaded, then NN is added to Vx.
AddRoms ==
    {Words(<<OpXNN(6, 15, f), OpXNN(6, x, a), OpXNN(7, x, b)>>) :
        f \in {0, 1}, x \in AddRegs, a \in Vals, b \in Vals}

InitAdd == InitMachine /\ rom \in AddRoms

SpecAdd == InitAdd /\ [][NextCpu]_vars

\* C26: after 6Xa 7Xb, Vx = (a + b) mod 256 and the CPU runs on, in either
\* build; no other register changes, VF included unless X = F.
C26_AddWrapsNoCarry ==
    (last.op = "AddToRegister" /\ last2.op = "SetRegister" /\ last2.x = last.x) =>
        /\ status = "running"
        /\ regs[last.x] = (last2.nn + last.nn) % 256
        /\ \A r \in (0..15) \ {last.x} : regs[r] = pre.regs[r]

\* C26's case: VF = 0 and V3 = 255, then 7302: the sum passes 255, V3 wraps
\* to 1 and VF stays 0, in a build with overflow checks.
C26_Witness ==
    /\ Ran("AddToRegister")
    /\ overflow_checks
    /\ last.x = 3
    /\ PreVx = 255
    /\ last.nn = 2
    /\ regs[3] = 1
    /\ pre.regs[15] = 0
    /\ regs[15] = 0

(***************************************************************************)
(* FX33, FX55, FX65 and FX1E, checked on the CPU thread.                   *)
(***************************************************************************)
\* Values of I for FX33: the first cell, inside a glyph, the ROM's own first
\* bytes, and the last four cells of the memory.
BcdBases == {0, FONT_START + 1, ROM_START, MEMORY_SIZE - 4, MEMORY_SIZE - 3,
             MEMORY_SIZE - 2, MEMORY_SIZE - 1}

\* 6Xv ANNN FX33: Vx and I are loaded, then Vx is converted.
BcdRoms ==
    {Words(<<OpXNN(6, x, v), 40960 + nnn, OpXNN(15, x, 51)>>) :
        x \in {0, 7, 15}, v \in 0..(U8 - 1), nnn \in BcdBases}

InitBcd == InitMachine /\ rom \in BcdRoms

SpecBcd == InitBcd /\ [][NextCpu]_vars

\* The cells that hold a byte other than 0 in either of two memories.
Cells(m1, m2) == (DOMAIN m1) \cup (DOMAIN m2)

\* C27: FX33 with I + 2 <= 0xFFF leaves the hundreds of Vx at memory[I], the
\* tens at memory[I + 1] and the units at memory[I + 2]; the CPU runs on,
\* and the registers, I and every other cell are as before.
C27_BcdDigits ==
    (last.op = "BinaryConversion" /\ pre.i + 2 <= 4095) =>
        /\ status = "running"
        /\ MemGet(memory, pre.i) = PreVx \div 100
        /\ MemGet(memory, pre.i + 1) = (PreVx \div 10) % 10
        /\ MemGet(memory, pre.i + 2) = PreVx % 10
        /\ regs = pre.regs
        /\ i = pre.i
        /\ \A image \in {LoadedImage} :
              \A a \in Cells(memory, image) \ (pre.i..(pre.i + 2)) :
                  MemGet(memory, a) = MemGet(image, a)

\* C27's case: V7 = 156 and I = 0xFFD, then F733: the digits 1, 5, 6 fill
\* the last three cells of the memory.
C27_Witness ==
    /\ Ran("BinaryConversion")
    /\ last.x = 7
    /\ PreVx = 156
    /\ pre.i = 4093
    /\ MemGet(memory, 4093) = 1
    /\ MemGet(memory, 4094) = 5
    /\ MemGet(memory, 4095) = 6

\* Values of I for FX55 and FX65: the first cell, the font, the ROM, and the
\* last cells of the memory.
CopyBases == {0, FONT_START, ROM_START, MEMORY_SIZE - 16, MEMORY_SIZE - 2}

\* 60a 61b 6Fc ANNN FX55 / FX65.
CopyRoms ==
    {Words(<<OpXNN(6, 0, a), OpXNN(6, 1, b), OpXNN(6, 15, c), 40960 + nnn,
             OpXNN(15, x, op)>>) :
        a \in Vals, b \in {0, 7}, c \in {0, 9}, nnn \in CopyBases,
        x \in {0, 1, 2, 15}, op \in {85, 101}}

InitCopy == InitMachine /\ rom \in CopyRoms

SpecCopy == InitCopy /\ [][NextCpu]_vars

\* C28: with I + X <= 0xFFF, FX55 leaves V0..VX at memory[I..I + X] and
\* changes no other cell and no register; FX65 leaves memory[I..I + X] in
\* V0..VX and changes no cell and no register above VX; both leave I as it
\* was and the CPU running.
C28_StoreLoadCopy ==
    (last.op \in {"Store", "Load"} /\ pre.i + last.x <= 4095) =>
        /\ status = "running"
        /\ i = pre.i
        /\ last.op = "Store" =>
              /\ \A k \in 0..last.x : MemGet(memory, pre.i + k) = pre.regs[k]
              /\ \A image \in {LoadedImage} :
                    \A a \in Cells(memory, image) \ (pre.i..(pre.i + last.x)) :
                        MemGet(memory, a) = MemGet(image, a)
              /\ regs = pre.regs
        /\ last.op = "Load" =>
              /\ \A image \in {LoadedImage} :
                    \A k \in 0..last.x : regs[k] = MemGet(image, pre.i + k)
              /\ \A r \in (last.x + 1)..15 : regs[r] = pre.regs[r]
              /\ \A image \in {LoadedImage} :
                    \A a \in Cells(memory, image) : MemGet(memory, a) = MemGet(image, a)

\* C28's case: F165 with I on the ROM: V0 and V1 take the ROM's first two
\* bytes, and V2 and VF keep what they held.
C28_Witness ==
    /\ Ran("Load")
    /\ last.x = 1
    /\ pre.i = ROM_START
    /\ pre.regs[0] = 255
    /\ regs[0] = 96
    /\ regs[1] = 255
    /\ regs[2] = 0
    /\ pre.regs[15] = 9
    /\ regs[15] = 9

\* 60a ANNN F01E 6Fc FF1E 1204: V0 is added to I, then VF (loaded with c),
\* for ever; <<a, c, NNN>> is chosen so that I walks up to 0xFFFF and one of
\* the two additions passes it.
IndexSteps == {<<240, 0, 4095>>, <<255, 1, 3840>>, <<254, 2, 3840>>}

IndexRoms ==
    {Words(<<OpXNN(6, 0, t[1]), 40960 + t[3], OpXNN(15, 0, 30), OpXNN(6, 15, t[2]),
             OpXNN(15, 15, 30), 4612>>) : t \in IndexSteps}

InitIndex == InitMachine /\ rom \in IndexRoms

SpecIndex == InitIndex /\ [][NextCpu]_vars

\* C29: FX1E leaves I = (I + Vx) mod 0x10000 and VF = 1 if I + Vx > 0xFFFF,
\* VF = 0 if not, Vx being the register's value before the instruction (the
\* old VF when X = F); the CPU runs on and no other register changes.
C29_AddToIndexFlag ==
    last.op = "AddToIndex" =>
        /\ status = "running"
        /\ i = (pre.i + PreVx) % 65536
        /\ regs[15] = Flag(pre.i + PreVx > 65535)
        /\ \A r \in 0..14 : regs[r] = pre.regs[r]

\* C29's case: I = 0xFFFE and VF = 2, then FF1E: I wraps to 0 and VF is 1.
C29_Witness ==
    /\ Ran("AddToIndex")
    /\ last.x = 15
    /\ pre.i = 65534
    /\ pre.regs[15] = 2
    /\ i = 0
    /\ regs[15] = 1

(***************************************************************************)
(* Chip8::load_rom, checked on files whose lengths lie at both ends of     *)
(* what the memory above ROM_START can take.                               *)
(***************************************************************************)
MaxSlack == 4

\* The lengths: 0..MaxSlack, and within MaxSlack of MEMORY_SIZE - ROM_START.
FileLengths ==
    (0..MaxSlack) \cup
    (((MEMORY_SIZE - ROM_START) - MaxSlack)..((MEMORY_SIZE - ROM_START) + MaxSlack))

\* A file of len bytes: 12 00 (a jump to itself), then bytes that differ
\* from cell to cell and are never 0.
FileOf(len, fill) ==
    [k \in 1..len |-> IF k = 1 THEN 18 ELSE IF k = 2 THEN 0
                      ELSE ((k * fill) % 251) + 1]

LoadRoms == {FileOf(len, fill) : len \in FileLengths, fill \in 1..3}

InitLoad == InitMachine /\ rom \in LoadRoms

SpecLoad == InitLoad /\ [][NextCpu]_vars

\* The byte of the font table that load_fonts puts in cell a, 0 outside it.
FontByte(a) ==
    IF a >= FONT_START /\ a < FONT_START + (FONT_SIZE * Len(Fonts))
    THEN Fonts[((a - FONT_START) \div FONT_SIZE) + 1][((a - FONT_START) % FONT_SIZE) + 1]
    ELSE 0

\* C30: once Chip8::run has loaded a file of at most 3584 bytes, the CPU
\* runs, memory[0x200 + k] is byte k of the file, and every other cell is
\* as load_fonts left it; a longer file is fatal and no instruction runs.
C30_RomLoadedAtStart ==
    status # "new" =>
        IF Len(rom) <= 3584
        THEN /\ last.op = "None" => status = "running"
             /\ \A k \in 1..Len(rom) : MemGet(memory, 511 + k) = rom[k]
             /\ \A a \in (0..(MEMORY_SIZE - 1)) \ (512..(511 + Len(rom))) :
                   MemGet(memory, a) = FontByte(a)
        ELSE /\ status = "panic"
             /\ last.op = "None"
             /\ pc = 0

\* C30's case: a file of 3584 bytes was loaded, its last byte is in the
\* last cell of the memory, and the CPU has executed its first instruction.
C30_Witness ==
    /\ Len(rom) = 3584
    /\ Ran("Jump")
    /\ rom[3584] # 0
    /\ MemGet(memory, 4095) = rom[3584]
    /\ MemGet(memory, FONT_START) = 240

(***************************************************************************)
(* Memory accesses past the last cell, checked on the CPU thread.          *)
(***************************************************************************)
\* 60F0 62v ANNN F01E 7101 3100 1206 w: 240 is added to I 256 times (V1
\* counts the turns and wraps to 0), which takes I from NNN to NNN + 0xF000;
\* then w, one of F233, F255, F265 and D003, runs with that I.
EdgeRoms ==
    {Words(<<OpXNN(6, 0, 240), OpXNN(6, 2, v), 40960 + nnn, OpXNN(15, 0, 30),
             OpXNN(7, 1, 1), OpXNN(3, 1, 0), 4614, w>>) :
        v \in {0, 9, 255}, nnn \in (4095 - MaxSlack)..4095,
        w \in {OpXNN(15, 2, 51), OpXNN(15, 2, 85), OpXNN(15, 2, 101),
               OpXYN(13, 0, 0, 3)}}

InitEdge == InitMachine /\ rom \in EdgeRoms

SpecEdge == InitEdge /\ [][NextCpu]_vars

\* The largest k for which the instruction executed last accesses
\* memory[I + k], -1 if it accesses none.
AccessSpan ==
    CASE last.op = "BinaryConversion" -> 2
      [] last.op \in {"Store", "Load"} -> last.x
      [] last.op = "Display" ->
             IF last.n = 0 THEN -1
             ELSE IF DrawY0 + last.n > DISPLAY_HEIGHT THEN (DISPLAY_HEIGHT - 1) - DrawY0
             ELSE last.n - 1
      [] OTHER -> -1

\* C31 (as claimed): every instruction is fetched from cells inside the
\* memory, and an instruction whose accesses memory[I + k] pass 0xFFF is
\* fatal and leaves every cell below the ROM as load_fonts left it.
C31_NoAccessOutsideMemory ==
    /\ last.op # "None" => pre.pc <= 4094
    /\ (AccessSpan >= 0 /\ pre.i + AccessSpan > 4095) =>
          /\ status = "panic"
          /\ \A a \in 0..(ROM_START - 1) : MemGet(memory, a) = FontByte(a)

(***************************************************************************)
(* 00E0, checked on the CPU thread.                                        *)
(***************************************************************************)
\* 00E0 alone, and 6Xa 6Yb ANNN D01n 6F07 FF15 00E0: a glyph is drawn at
\* (a, b), VF and the delay timer are loaded, then the screen is cleared.
ClearRoms ==
    {Words(<<224>>)} \cup
    {Words(<<OpXNN(6, 0, a), OpXNN(6, 1, b), 40960 + FONT_START + (FONT_SIZE * g),
             OpXYN(13, 0, 1, n), OpXNN(6, 15, 7), OpXNN(15, 15, 21), 224>>) :
        a \in Vals, b \in Vals, g \in {0, 1, 15}, n \in 0..(MaxRows + 1)}

InitClear == InitMachine /\ rom \in ClearRoms

SpecClear == InitClear /\ [][NextCpu]_vars

\* C32: after 00E0 every pixel is off and the PC is 2 past the
\* instruction (0x202 when it was at 0x200); the CPU runs on, and the
\* registers, I, the stack, the memory, the keypad and the timers are as
\* before.
C32_ClearScreen ==
    last.op = "ClearScreen" =>
        /\ status = "running"
        /\ \A x \in 0..63 : \A y \in 0..31 : ~is_on(display, x, y)
        /\ pc = pre.pc + 2
        /\ pre.pc = 512 => pc = 514
        /\ regs = pre.regs
        /\ i = pre.i
        /\ stack = pre.stack
        /\ keypad = pre.keypad
        /\ delay_timer = pre.delay_timer
        /\ sound_timer = pre.sound_timer
        /\ \A image \in {LoadedImage} :
              \A a \in Cells(memory, image) : MemGet(memory, a) = MemGet(image, a)

\* C32's case: 00E0 ran on a screen with a glyph on it, with VF and the delay
\* timer at 7.
C32_Witness ==
    /\ Ran("ClearScreen")
    /\ pre.display # {}
    /\ display = {}
    /\ regs[15] = 7
    /\ delay_timer = 7

(***************************************************************************)
(* 3XNN, 4XNN, 5XY0 and 9XY0, checked on the CPU thread.                   *)
(***************************************************************************)
SkipPairs == {<<0, 1>>, <<1, 1>>, <<15, 0>>, <<3, 15>>}

\* The skip of family k on the registers xy and the byte nn.
SkipWord(k, xy, nn) ==
    IF k \in {3, 4} THEN OpXNN(k, xy[1], nn) ELSE OpXYN(k, xy[1], xy[2], 0)

\* 6Xa 6Yb, then 3Xnn, 4Xnn, 5XY0 or 9XY0.
SkipRoms ==
    {Words(<<OpXNN(6, xy[1], a), OpXNN(6, xy[2], b), SkipWord(k, xy, nn)>>) :
        xy \in SkipPairs, a \in Vals, b \in Vals, k \in {3, 4, 5, 9}, nn \in Vals}

InitSkip == InitMachine /\ rom \in SkipRoms

SpecSkip == InitSkip /\ [][NextCpu]_vars

\* Whether the skip executed last is to be taken, by the values the
\* registers held when it was fetched.
SkipHolds ==
    CASE last.op = "SkipIfEqual" -> PreVx = last.nn
      [] last.op = "SkipIfDifferent" -> PreVx # last.nn
      [] last.op = "SkipIfContentEqual" -> PreVx = PreVy
      [] last.op = "SkipIfContentDifferent" -> PreVx # PreVy
      [] OTHER -> FALSE

\* C33: a conditional skip leaves the PC 4 past its own address when its
\* condition holds and 2 past it when not; the CPU runs on, and the
\* registers, I, the stack, the memory and the timers are as before.
C33_SkipByCondition ==
    last.op \in {"SkipIfEqual", "SkipIfDifferent", "SkipIfContentEqual",
                 "SkipIfContentDifferent"} =>
        /\ status = "running"
        /\ pc = (pre.pc + 2) + (IF SkipHolds THEN 2 ELSE 0)
        /\ regs = pre.regs
        /\ i = pre.i
        /\ stack = pre.stack
        /\ delay_timer = pre.delay_timer
        /\ sound_timer = pre.sound_timer
        /\ \A image \in {LoadedImage} :
              \A a \in Cells(memory, image) : MemGet(memory, a) = MemGet(image, a)

\* C33's case: V3 = 255 and VF = 254, then 93F0: the registers differ and
\* the PC is 4 past the instruction.
C33_Witness ==
    /\ Ran("SkipIfContentDifferent")
    /\ last.x = 3
    /\ last.y = 15
    /\ PreVx = 255
    /\ PreVy = 254
    /\ pre.pc = 516
    /\ pc = 520

(***************************************************************************)
(* The timers running down, with the timer threads scheduled fairly.       *)
(***************************************************************************)
\* 6Ev FE15 6Ew FE18 1208: the delay timer is loaded with v, the sound timer
\* with w, then the CPU spins without storing again.
TickRoms ==
    {Words(<<OpXNN(6, 14, v), OpXNN(15, 14, 21), OpXNN(6, 14, w), OpXNN(15, 14, 24),
             4616>>) : v \in 0..(MaxLow + 1), w \in 0..(MaxLow + 1)}

InitTick == InitMachine /\ rom \in TickRoms

NextTick == Start \/ Cycle \/ SoundOpen \/ DelayTick \/ SoundTick

\* Each timer thread wakes up every 1/60 s for ever: a pass that can be made
\* is made.
SpecTick ==
    /\ InitTick
    /\ [][NextTick]_vars
    /\ WF_vars(DelayTick)
    /\ WF_vars(SoundOpen)
    /\ WF_vars(SoundTick)

\* The CPU has made its last store: it is at the jump to itself.
Settled == NextInstr.op = "Jump"

\* C34: once FX15 and FX18 have stored and the CPU stores no more, each
\* counter is v minus the passes its thread has made since the store,
\* reaches 0 at pass v, and stays 0 until the CPU stores again.
C34_TimersRunDown ==
    /\ [](delay_timer = log.delay_timer.v - log.delay_timer.k)
    /\ [](sound_timer = log.sound_timer.v - log.sound_timer.k)
    /\ Settled ~> (delay_timer = 0 /\ log.delay_timer.k = log.delay_timer.v)
    /\ Settled ~> (sound_timer = 0 /\ log.sound_timer.k = log.sound_timer.v)
    /\ [][(delay_timer = 0 /\ ~CpuStores("SetDelayTimer")) => delay_timer' = 0]_vars
    /\ [][(sound_timer = 0 /\ ~CpuStores("SetSoundTimer")) => sound_timer' = 0]_vars

\* C34's case: the delay timer, loaded with 3, is 0 after 3 passes, and the
\* sound timer, loaded with 2, after 2, with the CPU spinning.
C34_Witness ==
    /\ Settled
    /\ log.delay_timer.v = 3 /\ log.delay_timer.k = 3 /\ delay_timer = 0
    /\ log.sound_timer.v = 2 /\ log.sound_timer.k = 2 /\ sound_timer = 0

(***************************************************************************)
(* Who writes the shared state, checked on the whole system (SpecLocks).   *)
(***************************************************************************)
\* The keys whose state a step changes.
KeysChanged == {code \in 0..(KEYPAD_SIZE - 1) : keypad'[code + 1] # keypad[code + 1]}

\* This step is the CPU thread's (Start or Cycle), or the host's.
HostStep == KeyPress \/ KeyRelease

\* C35: a step of the host changes no pixel and no timer, and the state of
\* one key with a code in 0x0..0xF; a step of the CPU thread changes no key;
\* a step of a timer thread changes no pixel, no key and not the other timer.
C35_SharedStateOwners ==
    [][/\ HostStep =>
             /\ UNCHANGED <<display, delay_timer, sound_timer>>
             /\ Cardinality(KeysChanged) <= 1
             /\ KeysChanged \subseteq 0..15
       /\ (Start \/ Cycle) => keypad' = keypad
       /\ keypad' # keypad => HostStep
       /\ display' # display => Cycle
       /\ (DelayLock \/ DelayDecrement) => UNCHANGED <<display, keypad, sound_timer>>
       /\ (SoundOpen \/ SoundLock \/ SoundDecrement) =>
             UNCHANGED <<display, keypad, delay_timer>>]_vars

\* C35's case: FX0A has read a key the host pressed, which is still pressed,
\* after the CPU drew on the screen and both timer threads made a pass.
C35_Witness ==
    /\ Ran("WaitForKey")
    /\ pc = pre.pc + 2
    /\ PressedKeys(pre.keypad) # {}
    /\ keypad = pre.keypad
    /\ regs[15] = 1
    /\ log.delay_timer.k > 0
    /\ log.sound_timer.k > 0

(***************************************************************************)
(* DXYN pixel by pixel.  draw_sprite locks the display once to read a      *)
(* pixel and once more to write it; between two of these uses the host's   *)
(* render can read the display.  DrawBegin, DrawRead and DrawWrite are     *)
(* draw_sprite cut at those points.                                        *)
(***************************************************************************)
\* The CPU thread's state becomes t.
CpuBecomes(t) ==
    /\ memory' = t.memory
    /\ pc' = t.pc
    /\ i' = t.i
    /\ stack' = t.stack
    /\ regs' = t.regs
    /\ display' = t.display
    /\ keypad' = t.keypad
    /\ delay_timer' = t.delay_timer
    /\ sound_timer' = t.sound_timer
    /\ held' = t.held
    /\ peak' = t.peak
    /\ status' = t.status
    /\ panic_msg' = t.panic_msg
    /\ failed' = t.failed
    /\ exit_code' = t.exit_code

\* What the actions of this section leave alone.
other_threads ==
    <<playing_timer, delay_thread, sound_thread, tone, log, audio, overflow_checks, rom>>

\* The head of draw_sprite: x and y from the registers, VF = 0.
draw_begin(s, x, y, n) ==
    [cpu |-> [s EXCEPT !.regs[15] = 0],
     drawing |-> [at |-> "loop", x |-> s.regs[x] % DISPLAY_WIDTH,
                  y |-> s.regs[y] % DISPLAY_HEIGHT, n |-> n, row |-> 0, bit |-> 0,
                  led_status |-> FALSE]]

\* draw_read dropping the guard on the display only after the write.
draw_read_keeps_guard(s, d) ==
    LET y_pos == d.y + d.row
        x_pos == d.x + d.bit
    IN  IF d.row >= d.n THEN [cpu |-> s, drawing |-> Idle]
        ELSE IF y_clipped(y_pos) \/ d.bit >= 8
        THEN [cpu |-> s, drawing |-> [d EXCEPT !.row = @ + 1, !.bit = 0]]
        ELSE IF mem_read_panic(s.i, d.row) # ""
        THEN [cpu |-> Panic(s, mem_read_panic(s.i, d.row)), drawing |-> Idle]
        ELSE IF x_clipped(x_pos)
        THEN [cpu |-> s, drawing |-> [d EXCEPT !.bit = @ + 1]]
        ELSE [cpu |-> lock(s, "display"),
              drawing |-> [d EXCEPT !.at = "write",
                                    !.led_status = is_on(s.display, x_pos, y_pos)]]

\* The loops of draw_sprite from (row, bit) to the next statement: the end
\* of the loops, a row or a pixel that is clipped, or the read of a pixel
\* under a guard that is dropped at the end of the statement.
draw_read(s, d) ==
    LET y_pos == d.y + d.row
        x_pos == d.x + d.bit
    IN  IF d.row >= d.n THEN [cpu |-> s, drawing |-> Idle]
        ELSE IF y_clipped(y_pos) \/ d.bit >= 8
        THEN [cpu |-> s, drawing |-> [d EXCEPT !.row = @ + 1, !.bit = 0]]
        ELSE IF mem_read_panic(s.i, d.row) # ""
        THEN [cpu |-> Panic(s, mem_read_panic(s.i, d.row)), drawing |-> Idle]
        ELSE IF x_clipped(x_pos)
        THEN [cpu |-> s, drawing |-> [d EXCEPT !.bit = @ + 1]]
        ELSE [cpu |-> drop_guard(lock(s, "display"), "display"),
              drawing |-> [d EXCEPT !.at = "write",
                                    !.led_status = is_on(s.display, x_pos, y_pos)]]

\* The rest of the inner loop's body: led_off and VF = 1, or led_on, by the
\* sprite's bit and the led_status read before.
draw_write(s, d) ==
    LET y_pos == d.y + d.row
        x_pos == d.x + d.bit
        bit_value == Bit(MemGet(s.memory, mem_addr(s.i, d.row)), 7 - d.bit)
        t == IF bit_value # 0 /\ d.led_status
             THEN [drop_guard(led_off(lock(s, "display"), x_pos, y_pos), "display")
                      EXCEPT !.regs[15] = 1]
             ELSE IF bit_value # 0 /\ ~d.led_status
             THEN drop_guard(led_on(lock(s, "display"), x_pos, y_pos), "display")
             ELSE s
    IN  [cpu |-> t, drawing |-> [d EXCEPT !.at = "loop", !.bit = @ + 1]]

\* fetch and decode of a DXYN, and the head of draw_sprite.
DrawBegin ==
    /\ drawing.at = "idle"
    /\ NextInstr.op = "Display"
    /\ \E r \in {draw_begin(fetch(Cpu), NextInstr.x, NextInstr.y, NextInstr.n)} :
          CpuBecomes(r.cpu) /\ drawing' = r.drawing
    /\ last' = NextInstr
    /\ pre' = Snapshot
    /\ last2' = last
    /\ pre2' = Snapshot2(pre)
    /\ UNCHANGED <<other_threads, frame, scanning>>

DrawRead ==
    /\ status = "running"
    /\ drawing.at = "loop"
    /\ \E r \in {draw_read(Cpu, drawing)} : CpuBecomes(r.cpu) /\ drawing' = r.drawing
    /\ UNCHANGED <<other_threads, frame, scanning, last, pre, last2, pre2>>

DrawWrite ==
    /\ status = "running"
    /\ drawing.at = "write"
    /\ \E r \in {draw_write(Cpu, drawing)} : CpuBecomes(r.cpu) /\ drawing' = r.drawing
    /\ UNCHANGED <<other_threads, frame, scanning, last, pre, last2, pre2>>

\* A cycle of the CPU on any instruction but DXYN.
CycleOther == NextInstr.op # "Display" /\ Cycle

\* App::render, for the renders whose reads of the display (each under a
\* guard of its own) all fall between two uses of the display by the CPU.
Render ==
    /\ status = "running"
    /\ "display" \notin held
    /\ frame' = display
    /\ UNCHANGED <<cpu_vars, audio, overflow_checks, rom, keypad, delay_timer,
                   sound_timer, playing_timer, delay_thread, sound_thread, tone,
                   log, status, panic_msg, failed, exit_code>>

\* 6Xa 6Yb A050 D01n D01n 120A: the rows of glyph 0 are drawn at (a, b) and
\* drawn again, which clears them.
RenderRoms ==
    {Words(<<OpXNN(6, 0, a), OpXNN(6, 1, b), 40960 + FONT_START, OpXYN(13, 0, 1, n),
             OpXYN(13, 0, 1, n), 4618>>) :
        a \in {0, 62}, b \in {0, 31}, n \in 1..MaxRows}

InitRender == InitMachine /\ rom \in RenderRoms

NextRender == Start \/ CycleOther \/ DrawBegin \/ DrawRead \/ DrawWrite \/ Render

SpecRender == InitRender /\ [][NextRender]_vars

\* The CPU after the DXYN executed last, had draw_sprite run in one step.
AtomicDraw ==
    draw_sprite([Cpu EXCEPT !.regs = pre.regs, !.display = pre.display, !.i = pre.i],
                last.x, last.y, last.n)

\* C36: inside a DXYN, between any two uses of the display, the CPU thread
\* holds no guard and the host can render; and when the DXYN is over, however
\* the renders fell, the display and the registers (VF with them) are those
\* of the DXYN run in one step.
C36_DrawInterleavesRender ==
    /\ (status = "running" /\ drawing.at # "idle") => (held = {} /\ ENABLED Render)
    /\ (Ran("Display") /\ drawing.at = "idle") =>
          \A t \in {AtomicDraw} : display = t.display /\ regs = t.regs

\* C36's case: a DXYN that cleared the pixels of an earlier one is over, and
\* the host's last render, made in the middle of it, found some of those
\* pixels lit and some cleared.
C36_Witness ==
    /\ Ran("Display")
    /\ drawing.at = "idle"
    /\ regs[15] = 1
    /\ display = {}
    /\ frame # {}
    /\ frame # pre.display
    /\ frame \subseteq pre.display

(***************************************************************************)
(* FX0A key by key.  wait_for_key locks the keypad, tests the keys from 0  *)
(* up under that one guard and drops it when it returns; ScanBegin and     *)
(* ScanKey are wait_for_key cut before every test.                         *)
(***************************************************************************)
\* scan_begin without the lock on the keypad.
scan_begin_no_lock(s, reg) ==
    [cpu |-> s, scanning |-> [at |-> "scan", reg |-> reg, key |-> 0]]

\* The head of wait_for_key: the guard is taken, key = 0.
scan_begin(s, reg) ==
    [cpu |-> lock(s, "keypad"), scanning |-> [at |-> "scan", reg |-> reg, key |-> 0]]

\* scan_key for a wait_for_key whose guard outlives the function.
scan_key_keeps_guard(s, sc) ==
    IF sc.key >= 16
    THEN [cpu |-> [s EXCEPT !.pc = s.pc - 2], scanning |-> NoScan]
    ELSE IF get_is_pressed(s.keypad, sc.key)
    THEN [cpu |-> [s EXCEPT !.regs[sc.reg] = sc.key], scanning |-> NoScan]
    ELSE [cpu |-> s, scanning |-> [sc EXCEPT !.key = @ + 1]]

\* One turn of the while loop, or what follows it: a key that is pressed
\* goes to Vx; past the last key the PC is put back on the instruction.
scan_key(s, sc) ==
    IF sc.key >= 16
    THEN [cpu |-> drop_guard([s EXCEPT !.pc = s.pc - 2], "keypad"), scanning |-> NoScan]
    ELSE IF get_is_pressed(s.keypad, sc.key)
    THEN [cpu |-> drop_guard([s EXCEPT !.regs[sc.reg] = sc.key], "keypad"),
          scanning |-> NoScan]
    ELSE [cpu |-> s, scanning |-> [sc EXCEPT !.key = @ + 1]]

\* fetch and decode of an FX0A, and the head of wait_for_key.
ScanBegin ==
    /\ scanning.at = "idle"
    /\ NextInstr.op = "WaitForKey"
    /\ \E r \in {scan_begin(fetch(Cpu), NextInstr.x)} :
          CpuBecomes(r.cpu) /\ scanning' = r.scanning
    /\ last' = NextInstr
    /\ pre' = Snapshot
    /\ last2' = last
    /\ pre2' = Snapshot2(pre)
    /\ UNCHANGED <<other_threads, frame, drawing>>

ScanKey ==
    /\ status = "running"
    /\ scanning.at = "scan"
    /\ \E r \in {scan_key(Cpu, scanning)} : CpuBecomes(r.cpu) /\ scanning' = r.scanning
    /\ UNCHANGED <<other_threads, frame, drawing, last, pre, last2, pre2>>

\* A cycle of the CPU on any instruction but FX0A.
CycleNoWait == NextInstr.op # "WaitForKey" /\ Cycle

\* FX0A FY0A 1204: two waits, one after the other, then a spin.
ScanRoms == {Words(<<OpXNN(15, x, 10), OpXNN(15, y, 10), 4612>>) : x \in {0, 15}, y \in {1, 2}}

InitScan == InitMachine /\ rom \in ScanRoms

NextScan == Start \/ CycleNoWait \/ ScanBegin \/ ScanKey \/ KeyPress \/ KeyRelease

SpecScan == InitScan /\ [][NextScan]_vars

\* C37: while FX0A scans, the CPU thread holds the guard on the keypad and
\* the host cannot press or release a key; when it is over the keypad is the
\* one it locked; if a key was pressed then, Vx is the lowest pressed code
\* and the PC is past the instruction, and if none was, the PC is back on it
\* and no register changed.  Nothing else decides: a key that was pressed
\* before the FX0A began, and read by an earlier one, completes it.
C37_WaitScansOneSnapshot ==
    /\ scanning.at = "scan" =>
          (held = {"keypad"} /\ keypad = pre.keypad /\ ~ENABLED KeyPress
             /\ ~ENABLED KeyRelease)
    /\ (last.op = "WaitForKey" /\ scanning.at = "idle") =>
          /\ status = "running"
          /\ held = {}
          /\ IF PressedKeys(pre.keypad) = {}
             THEN pc = pre.pc /\ regs = pre.regs
             ELSE /\ pc = pre.pc + 2
                  /\ regs[last.x] \in PressedKeys(pre.keypad)
                  /\ \A code \in PressedKeys(pre.keypad) : regs[last.x] <= code
                  /\ \A r \in (DOMAIN regs) \ {last.x} : regs[r] = pre.regs[r]

\* C37's case: with keys 0 and 1 pressed, the first FX0A read key 0, and the
\* second, begun with key 0 still in its register and both keys pressed,
\* read key 0 again.
C37_Witness ==
    /\ Ran("WaitForKey")
    /\ last2.op = "WaitForKey"
    /\ scanning.at = "idle"
    /\ last.x = 1
    /\ last2.x = 15
    /\ PressedKeys(pre.keypad) = {0, 1}
    /\ pre.regs[15] = 0
    /\ pre2.regs[15] = 0
    /\ regs[1] = 0
    /\ pc = 516

(***************************************************************************)
(* The four threads together: the CPU, with DXYN cut at every use of the   *)
(* display and FX0A at every key test, the two timer threads, with a pass  *)
(* cut after the lock, and the host, which renders and reports keys.       *)
(***************************************************************************)
\* A cycle of the CPU on an instruction that is neither DXYN nor FX0A.
CycleAtomic == NextInstr.op \notin {"Display", "WaitForKey"} /\ Cycle

\* The steps of each thread.
CpuStep == CycleAtomic \/ DrawBegin \/ DrawRead \/ DrawWrite \/ ScanBegin \/ ScanKey

DelayStep == DelayLock \/ DelayDecrement

SoundStep == SoundOpen \/ SoundLock \/ SoundDecrement

\* Three programs, one for each mutex the CPU shares.  6E01 FE15 FE18 1206:
\* both timers are loaded, then the program spins.  F00A 1202: a key is
\* waited for.  623F A050 D221 1206: a glyph row is drawn at the right edge
\* of the screen (one pixel of it is on the screen).
ThreadRoms ==
    {Words(<<OpXNN(6, 14, 1), OpXNN(15, 14, 21), OpXNN(15, 14, 24), 4614>>),
     Words(<<OpXNN(15, 0, 10), 4610>>),
     Words(<<OpXNN(6, 2, 63), 40960 + FONT_START, OpXYN(13, 2, 2, 1), 4614>>)}

\* None of these programs does arithmetic that can overflow: the build with
\* overflow checks stands for both.
InitThreads == InitMachine /\ rom \in ThreadRoms /\ overflow_checks

NextThreads ==
    Start \/ CpuStep \/ DelayStep \/ SoundStep \/ KeyPress \/ KeyRelease \/ Render

\* The scheduler lets every thread run again and again.  Each timer thread
\* sleeps 16 ms between two passes, so a CPU thread that waits for a timer
\* gets it: its steps are strongly fair.  The host's events are inputs.
SpecThreads ==
    /\ InitThreads
    /\ [][NextThreads]_vars
    /\ SF_vars(CpuStep)
    /\ WF_vars(DelayStep)
    /\ WF_vars(SoundStep)

\* The address after FE15 and FE18 in the first of ThreadRoms.
PastTimers == ROM_START + 6

\* C38: no lock deadlock.  While the process runs: between two instructions
\* the CPU thread holds no guard, and inside one it holds at most one and
\* its next step needs no other mutex; a timer thread that holds its guard
\* can always finish its pass; the CPU never held two guards.  And under
\* fair scheduling a CPU thread that waits for a timer mutex gets past FE15
\* and FE18, a host that waits for the keypad finds it free, and a timer
\* thread that took its guard drops it.
C38_NoLockDeadlock ==
    /\ [](status = "running" =>
            /\ peak <= 1
            /\ (scanning.at = "idle" => held = {})
            /\ (scanning.at = "scan" => held = {"keypad"})
            /\ (scanning.at = "scan" => ENABLED ScanKey)
            /\ (drawing.at = "loop" => ENABLED DrawRead)
            /\ (drawing.at = "write" => ENABLED DrawWrite)
            /\ (delay_thread.at = "locked" => ENABLED DelayDecrement)
            /\ (sound_thread.at = "locked" => ENABLED SoundDecrement)
            /\ ENABLED Render)
    /\ (status = "running" /\ lock_blocks(NextInstr)) ~> (pc = PastTimers)
    /\ ("keypad" \in held) ~> ("keypad" \notin held)
    /\ (delay_thread.at = "locked") ~> (delay_thread.at = "sleep")
    /\ (sound_thread.at = "locked") ~> (sound_thread.at = "sleep")

\* C38's case: the CPU thread, which has loaded the delay timer, is at FE18
\* and finds the sound timer locked by its thread, while the delay thread
\* holds its own guard too.
C38_Witness ==
    /\ status = "running"
    /\ NextInstr.op = "SetSoundTimer"
    /\ lock_blocks(NextInstr)
    /\ last.op = "SetDelayTimer"
    /\ delay_thread.at = "locked"
    /\ peak = 1

(***************************************************************************)
(* 8XY0, 8XY1, 8XY2, 8XY3, checked on the CPU thread running BitRoms.      *)
(***************************************************************************)
BitPairs == {<<0, 1>>, <<1, 1>>, <<0, 15>>, <<14, 2>>}

\* 6Fc 6Xa 6Yb 8XYk: VF and two registers are loaded, then one copy or
\* bitwise instruction runs.
BitRoms ==
    {Words(<<OpXNN(6, 15, c), OpXNN(6, xy[1], a), OpXNN(6, xy[2], b),
             OpXYN(8, xy[1], xy[2], k)>>) :
        xy \in BitPairs, a \in Vals, b \in Vals, c \in {0, 1, 255}, k \in 0..3}

InitBit == InitMachine /\ rom \in BitRoms

SpecBit == InitBit /\ [][NextCpu]_vars

\* C39: after 8XY0, 8XY1, 8XY2 or 8XY3 with X # F, Vx is Vy, or bit by bit
\* the OR, the AND or the XOR of the old Vx and Vy, and VF and every other
\* register are what they were.
C39_BitwiseWritesVxOnly ==
    (last.op \in {"LogicalCopy", "LogicalOr", "LogicalAnd", "LogicalXor"} /\ last.x # 15) =>
        /\ status = "running"
        /\ pc = pre.pc + 2
        /\ last.op = "LogicalCopy" => regs[last.x] = PreVy
        /\ last.op = "LogicalOr" =>
              \A k \in 0..7 :
                 Bit(regs[last.x], k) = Flag(Bit(PreVx, k) = 1 \/ Bit(PreVy, k) = 1)
        /\ last.op = "LogicalAnd" =>
              \A k \in 0..7 :
                 Bit(regs[last.x], k) = Flag(Bit(PreVx, k) = 1 /\ Bit(PreVy, k) = 1)
        /\ last.op = "LogicalXor" =>
              \A k \in 0..7 :
                 Bit(regs[last.x], k) = Flag(Bit(PreVx, k) # Bit(PreVy, k))
        /\ regs[last.x] \in 0..255
        /\ \A r \in (0..15) \ {last.x} : regs[r] = pre.regs[r]

\* C39's case: VF = 1, V0 = 127 and V1 = 128, then 8011: V0 is 255, V1 is
\* still 128 and VF is still 1.
C39_Witness ==
    /\ Ran("LogicalOr")
    /\ last.x = 0
    /\ last.y = 1
    /\ PreVx = 127
    /\ PreVy = 128
    /\ pre.regs[15] = 1
    /\ regs[0] = 255
    /\ regs[1] = 128
    /\ regs[15] = 1

====
